---- MODULE Spec2Model ----
(***************************************************************************)
(* A model of the tracker dynamic disassembler: the CFG builder of         *)
(* src/src/trace.c driven by the tracing loop of src/src/tracker.c, and    *)
(* the instruction store of src/src/traces.c.                              *)
(***************************************************************************)
EXTENDS Integers, Sequences, FiniteSets, TLC

(***************************************************************************)
(* 64-bit unsigned words (uint64_t) as 8 bytes, least significant first.   *)
(***************************************************************************)
RECURSIVE XorNat(_, _)
XorNat(a, b) ==
  IF a = 0 THEN b
  ELSE IF b = 0 THEN a
  ELSE (((a % 2) + (b % 2)) % 2) + 2 * XorNat(a \div 2, b \div 2)

RECURSIVE NatBytes(_, _)
NatBytes(n, k) ==
  IF k = 0 THEN <<>> ELSE <<n % 256>> \o NatBytes(n \div 256, k - 1)

U64(n) == NatBytes(n, 8)

U64Limb(x, i) == IF i <= 8 THEN x[i] ELSE 0

U64Xor(x, y) == [i \in 1..8 |-> XorNat(x[i], y[i])]

U64Shr(x, n) ==
  LET q == n \div 8
      r == n % 8
  IN  [i \in 1..8 |->
         (U64Limb(x, i + q) \div (2 ^ r))
         + (U64Limb(x, i + q + 1) % (2 ^ r)) * (2 ^ (8 - r))]

RECURSIVE ColSum(_, _, _, _)
ColSum(x, y, k, i) ==
  IF i > k THEN 0 ELSE (x[i] * y[k + 1 - i]) + ColSum(x, y, k, i + 1)

RECURSIVE MulLimbs(_, _, _, _)
MulLimbs(x, y, k, carry) ==
  IF k > 8 THEN <<>>
  ELSE LET s == ColSum(x, y, k, 1) + carry
       IN  <<s % 256>> \o MulLimbs(x, y, k + 1, s \div 256)

U64Mul(x, y) == MulLimbs(x, y, 1, 0)

RECURSIVE ModFold(_, _, _, _)
ModFold(x, s, i, r) ==
  IF i = 0 THEN r ELSE ModFold(x, s, i - 1, ((r * 256) + x[i]) % s)

U64Mod(x, s) == ModFold(x, s, 8, 0)

(***************************************************************************)
(* fasthash64 and hash_instr (trace.c and traces.c hold the same code).    *)
(***************************************************************************)
FastHashM == <<101, 25, 109, 30, 242, 85, 3, 136>>   \* 0x880355f21e6d1965
MixMul == <<55, 92, 50, 244, 139, 89, 39, 33>>       \* 0x2127598bf4325c37

mix(h) ==
  LET h1 == U64Xor(h, U64Shr(h, 23))
      h2 == U64Mul(h1, MixMul)
  IN  U64Xor(h2, U64Shr(h2, 47))

HashRound(h, v) == U64Mul(U64Xor(h, mix(v)), FastHashM)

Block(buf, j) == [i \in 1..8 |-> buf[8 * j + i]]

TailWord(buf, len) ==
  LET base == 8 * (len \div 8)
      t == len % 8
  IN  [i \in 1..8 |-> IF i <= t THEN buf[base + i] ELSE 0]

RECURSIVE HashBlocks(_, _, _, _)
HashBlocks(buf, nblocks, j, h) ==
  IF j = nblocks THEN h
  ELSE HashBlocks(buf, nblocks, j + 1, HashRound(h, Block(buf, j)))

fasthash64(buf, len, seed) ==
  LET h0 == U64Xor(U64(seed), U64Mul(U64(len), FastHashM))
      h1 == HashBlocks(buf, len \div 8, 0, h0)
      h2 == IF len % 8 = 0 THEN h1 ELSE HashRound(h1, TailWord(buf, len))
  IN  mix(h2)

hash_instr(instr) == fasthash64(instr.opcodes, instr.size, instr.address)

(***************************************************************************)
(* Instruction records of trace.c.                                         *)
(***************************************************************************)
NULL == 0
UNINIT == -1
\* the NULL instr_t pointer
NoInstr == [address |-> 0, type |-> "NONE", size |-> 0, opcodes |-> <<>>]

BASIC == "BASIC"
BRANCH == "BRANCH"
CALL == "CALL"
JUMP == "JUMP"
RET == "RET"

\* strstr (haystack, needle) != NULL, on strings held as character sequences
strstr(hay, needle) ==
  \E k \in 0..(Len(hay) - Len(needle)) :
     SubSeq(hay, k + 1, k + Len(needle)) = needle

StrCall == <<"c", "a", "l", "l">>
StrJmp == <<"j", "m", "p">>

\* The classification of instr_new; opcodes[0] of the C code is opcodes[1].
instr_type(opcodes, size, str_name) ==
  IF (opcodes[1] >= 112 /\ opcodes[1] <= 127)
     \/ (opcodes[1] = 15 /\ opcodes[2] >= 128 /\ opcodes[2] <= 143)
  THEN BRANCH
  ELSE IF opcodes[1] = 232
          \/ opcodes[1] = 154
          \/ (opcodes[1] = 255 /\ (size = 2 \/ size = 3))
          \/ (opcodes[1] = 65 /\ opcodes[2] = 255 /\ strstr(str_name, StrCall))
  THEN CALL
  ELSE IF (opcodes[1] >= 233 /\ opcodes[1] <= 235)
          \/ (opcodes[1] = 255 /\ (size = 4 \/ size = 5))
          \/ (opcodes[1] >= 224 /\ opcodes[1] <= 227)
          \/ (opcodes[1] = 65 /\ opcodes[2] = 255 /\ strstr(str_name, StrJmp))
  THEN JUMP
  ELSE IF ((opcodes[1] = 195 \/ opcodes[1] = 203) /\ size = 1)
          \/ ((opcodes[1] = 194 \/ opcodes[1] = 202) /\ size = 3)
          \/ (opcodes[1] = 243 /\ opcodes[2] = 195 /\ size = 2)
  THEN RET
  ELSE BASIC

\* instr_new of trace.c; opcodes is the buffer read at ip (absent: <<>>)
instr_new(addr, size, opcodes, str_name) ==
  IF size = 0 \/ opcodes = <<>>
  THEN NoInstr
  ELSE [address |-> addr,
        type |-> instr_type(opcodes, size, str_name),
        size |-> size,
        opcodes |-> SubSeq(opcodes, 1, size)]

(***************************************************************************)
(* What the tracees execute: one entry per instruction, the instruction    *)
(* pointer, the decoded size and mnemonic, and the bytes read at ip.       *)
(***************************************************************************)
Insn(ip, size, buf, mnemonic) ==
  [ip |-> ip, size |-> size, buf |-> buf, mnemonic |-> mnemonic]

MnNop == <<"n", "o", "p">>
MnMov == <<"m", "o", "v">>
MnPush == <<"p", "u", "s", "h">>
MnRet == <<"r", "e", "t">>
MnJe == <<"j", "e">>

\* nop; call 0x16; mov $0x41,%al   ...   0x16: push %rbp; ret
InsA == Insn(0, 1, <<144, 232>>, MnNop)
InsB == Insn(1, 5, <<232, 16, 0, 0, 0>>, StrCall)
InsC == Insn(22, 1, <<85, 195>>, MnPush)
InsD == Insn(23, 1, <<195, 0>>, MnRet)
InsE == Insn(6, 2, <<176, 65>>, MnMov)
\* the bytes at 6 rewritten: mov $0xbb,%al hashes to the bucket of InsE,
\* mov $0x00,%al to another one
InsE2 == Insn(6, 2, <<176, 187>>, MnMov)
InsE3 == Insn(6, 2, <<176, 0>>, MnMov)
\* 8: je 0xc; nops at 10, 12, 14
InsX == Insn(8, 2, <<116, 2>>, MnJe)
InsN1 == Insn(10, 1, <<144, 144>>, MnNop)
InsN2 == Insn(12, 1, <<144, 144>>, MnNop)
InsN3 == Insn(14, 1, <<144, 144>>, MnNop)
\* 30: jmp 0xa; 32: call *%rax
InsJ == Insn(30, 2, <<235, 234>>, StrJmp)
InsI == Insn(32, 2, <<255, 208>>, StrCall)

AllInsns ==
  {InsA, InsB, InsC, InsD, InsE, InsE2, InsE3, InsX, InsN1, InsN2, InsN3,
   InsJ, InsI}

Programs ==
  { {InsA, InsB, InsC, InsD, InsE},
    {InsX, InsN1, InsN2, InsN3},
    {InsB, InsD, InsE, InsE2, InsE3},
    {InsX, InsE, InsE2, InsE3},
    {InsI, InsB, InsD, InsE},
    {InsJ, InsI, InsN1, InsN2, InsD} }

\* A chain of functions, each calling the next one at its first
\* instruction (call +11, at 4096 + 16 k); there is one more of them than
\* function_entry has slots.
CallAt(k) == Insn(4096 + 16 * k, 5, <<232, 11, 0, 0, 0>>, StrCall)
ChainInsns == {CallAt(k) : k \in 1..257}

\* hash_instr over the instructions that occur, computed once
KnownInstrs ==
  {instr_new(p.ip, p.size, p.buf, p.mnemonic) : p \in AllInsns \cup ChainInsns}
HashMemo == [instr \in KnownInstrs |-> hash_instr(instr)]
HashOf(instr) ==
  IF instr \in KnownInstrs THEN HashMemo[instr] ELSE hash_instr(instr)

(***************************************************************************)
(* The memory the CFG builder works on: the node arena, the hashtable and  *)
(* the globals depth, nb_name, stack and function_entry of trace.c.        *)
(* A node handle is an index into nodes; a bucket, a stack slot or a       *)
(* function_entry slot that is NULL is absent from its map.                *)
(***************************************************************************)
VARIABLES nodes, ht, depth, nb_name, stack, function_entry

STACK_SIZE == 256
FUNCTION_ENTRY_SIZE == 256
UINT16 == 65536
DEFAULT_HASHTABLE_SIZE == 65536
SizeofCfg == 32
SizeofPtr == 8

Mem ==
  [nodes |-> nodes, ht |-> ht, depth |-> depth, nb_name |-> nb_name,
   stack |-> stack, function_entry |-> function_entry]

Put(f, k, v) == (k :> v) @@ f
Drop(f, k) == [i \in (DOMAIN f) \ {k} |-> f[i]]

\* An outcome of a call: the memory after it and the value returned.
\* ub: the call read or wrote out of bounds; fault: and the process died.
Out(m, ret) == [m |-> m, ret |-> ret, fault |-> FALSE, ub |-> FALSE]
Fault(m) == [m |-> m, ret |-> NULL, fault |-> TRUE, ub |-> TRUE]
Undefined(o) == [o EXCEPT !.ub = TRUE]

\* hash_instr (instr) % ht->size
BucketIndex(t, instr) == U64Mod(HashOf(instr), t.size)

hashtable_new(size) ==
  IF size = 0 THEN NULL
  ELSE [size |-> size, collisions |-> 0, entries |-> 0, buckets |-> <<>>]


\* position of the first entry of the bucket with the address, 0 if none
ScanAddress(m, bucket, addr) ==
  LET hits == {k \in 1..Len(bucket) :
                 m.nodes[bucket[k]].instruction.address = addr}
  IN  IF hits = {} THEN 0 ELSE CHOOSE k \in hits : \A j \in hits : k <= j

\* an insertion that reports a node whose address is already there as not
\* inserted
hashtable_insert_refusing(m, CFG) ==
  LET instr == m.nodes[CFG].instruction
      index == BucketIndex(m.ht, instr)
      t == m.ht
  IN  IF index \notin DOMAIN t.buckets
      THEN [m |-> [m EXCEPT !.ht.buckets = Put(t.buckets, index, <<CFG>>),
                            !.ht.entries = t.entries + 1],
            ret |-> TRUE]
      ELSE IF ScanAddress(m, t.buckets[index], instr.address) # 0
      THEN [m |-> m, ret |-> FALSE]
      ELSE [m |-> [m EXCEPT !.ht.buckets[index] = Append(@, CFG),
                            !.ht.collisions = t.collisions + 1,
                            !.ht.entries = t.entries + 1],
            ret |-> TRUE]

hashtable_insert(m, CFG) ==
  LET instr == m.nodes[CFG].instruction
      index == BucketIndex(m.ht, instr)
      t == m.ht
  IN  IF index \notin DOMAIN t.buckets
      THEN [m |-> [m EXCEPT !.ht.buckets = Put(t.buckets, index, <<CFG>>),
                            !.ht.entries = t.entries + 1],
            ret |-> TRUE]
      ELSE IF ScanAddress(m, t.buckets[index], instr.address) # 0
      THEN [m |-> m, ret |-> TRUE]
      ELSE [m |-> [m EXCEPT !.ht.buckets[index] = Append(@, CFG),
                            !.ht.collisions = t.collisions + 1,
                            !.ht.entries = t.entries + 1],
            ret |-> TRUE]

hashtable_lookup(m, instr) ==
  LET index == BucketIndex(m.ht, instr)
      t == m.ht
  IN  IF index \notin DOMAIN t.buckets THEN NULL
      ELSE LET k == ScanAddress(m, t.buckets[index], instr.address)
           IN  IF k = 0 THEN NULL ELSE t.buckets[index][k]

hashtable_entries(t) == t.entries
hashtable_collisions(t) == t.collisions

\* calloc (1 or 2, sizeof (cfg_t)) counted in successor handles
InitialCapacity(type) ==
  IF type = BASIC THEN (1 * SizeofCfg) \div SizeofPtr
  ELSE (2 * SizeofCfg) \div SizeofPtr

cfg_new(m, ins) ==
  LET CFG == [instruction |-> ins,
              nb_in |-> 0,
              nb_out |-> 0,
              name |-> 0,
              successor |-> [i \in 1..InitialCapacity(ins.type) |-> NULL]]
      h == Len(m.nodes) + 1
      m1 == [m EXCEPT !.nodes = Append(@, CFG)]
  IN  [m |-> hashtable_insert(m1, h).m, ret |-> h]

RECURSIVE is_power_2(_)
is_power_2(n) ==
  IF n = 0 THEN FALSE
  ELSE IF n % 2 # 0 THEN FALSE
  ELSE IF n = 2 THEN TRUE
  ELSE is_power_2(n \div 2)

\* a realloc to the handles counted so far, half of what is asked
ReallocHalf(m, CFG, n) ==
  LET old == m.nodes[CFG].successor
  IN  [m EXCEPT !.nodes[CFG].successor =
         [i \in 1..(n \div 2) |-> IF i <= Len(old) THEN old[i] ELSE UNINIT]]

\* CFG->successor = realloc (CFG->successor, n * sizeof (cfg_t *))
Realloc(m, CFG, n) ==
  LET old == m.nodes[CFG].successor
  IN  [m EXCEPT !.nodes[CFG].successor =
         [i \in 1..n |-> IF i <= Len(old) THEN old[i] ELSE UNINIT]]

\* the successor written and nb_in counted, nb_out left as it was
LinkNoCount(m, CFG, k, new) ==
  IF k + 1 > Len(m.nodes[CFG].successor)
  THEN Fault(m)
  ELSE LET n1 == [m.nodes EXCEPT ![CFG].successor[k + 1] = new]
           n2 == [n1 EXCEPT ![new].nb_in = (@ + 1) % UINT16]
           n3 == [n2 EXCEPT ![new].name = n2[CFG].name]
       IN  Out([m EXCEPT !.nodes = n3], new)

\* CFG->successor[k] = new; CFG->nb_out++; new->nb_in++; new->name = CFG->name
Link(m, CFG, k, new) ==
  IF k + 1 > Len(m.nodes[CFG].successor)
  THEN Fault(m)
  ELSE LET n1 == [m.nodes EXCEPT ![CFG].successor[k + 1] = new,
                                 ![CFG].nb_out = (@ + 1) % UINT16]
           n2 == [n1 EXCEPT ![new].nb_in = (@ + 1) % UINT16]
           n3 == [n2 EXCEPT ![new].name = n2[CFG].name]
       IN  Out([m EXCEPT !.nodes = n3], new)

\* the JUMP policy, also the tail of the RET case
Grow(m, CFG) ==
  IF is_power_2(m.nodes[CFG].nb_out)
  THEN Realloc(m, CFG, 2 * m.nodes[CFG].nb_out)
  ELSE m

AppendSuccessor(m, CFG, new) ==
  LET m1 == Grow(m, CFG) IN Link(m1, CFG, m1.nodes[CFG].nb_out, new)

\* the frame at d is read and its slot cleared; depth stays where it was
PopFrameKeepDepth(m, d) == [m EXCEPT !.stack = Drop(@, d)]

\* the frame at d is taken: depth is left at d and stack[d] = NULL
PopFrame(m, d) == [m EXCEPT !.depth = d, !.stack = Drop(@, d)]

\* the RET case once stack[d] is read, d being depth - 1
ReturnTo(m, CFG, new, d) ==
  LET caller == m.stack[d]
      ci == m.nodes[caller].instruction
      back == [m EXCEPT !.depth = (d + 1) % UINT16]
  IN  IF m.nodes[new].instruction.address = ci.address + ci.size
      THEN AppendSuccessor(PopFrame(m, d), caller, new)
      ELSE AppendSuccessor(back, CFG, new)

\* The outcomes of aux_cfg_insert: one, or those of an out-of-bounds read
aux_cfg_insert(m, CFG, new) ==
  IF new = NULL THEN {Out(m, NULL)}
  ELSE
    LET c == m.nodes[CFG]
        type == c.instruction.type
    IN  IF type # RET /\ c.successor[1] = NULL
        THEN {Link(m, CFG, 0, new)}
        ELSE CASE type = BRANCH ->
                    IF c.nb_out >= 2 THEN {Out(m, NULL)}
                    ELSE {Link(m, CFG, 1, new)}
               [] type = JUMP -> {AppendSuccessor(m, CFG, new)}
               [] type = RET ->
                    LET d == (m.depth + UINT16 - 1) % UINT16
                        back == [m EXCEPT !.depth = (d + 1) % UINT16]
                    IN  IF d >= STACK_SIZE
                        THEN {Fault(m),
                              Undefined(AppendSuccessor(back, CFG, new))}
                               \cup (IF d \in DOMAIN m.stack
                                     THEN {Undefined(ReturnTo(m, CFG, new,
                                                              d))}
                                     ELSE {})
                        ELSE IF d \notin DOMAIN m.stack
                        THEN {Fault(m)}
                        ELSE {ReturnTo(m, CFG, new, d)}
               [] OTHER -> {Out(m, new)}

\* stack[depth] = CFG; depth++
Push(m, CFG) ==
  [m EXCEPT !.stack = Put(@, m.depth, CFG), !.depth = (@ + 1) % UINT16]

\* nb_name++; function_entry[nb_name] = new
NewFunction(m, new) ==
  LET k == (m.nb_name + 1) % UINT16
  IN  [m EXCEPT !.nb_name = k, !.function_entry = Put(@, k, new)]

\* a scan of the successors that finds nothing
IsSuccessorNever(m, CFG, new) == FALSE

IsSuccessor(m, CFG, new) ==
  \E i \in 1..m.nodes[CFG].nb_out :
     m.nodes[m.nodes[CFG].successor[i]].instruction.address
       = m.nodes[new].instruction.address

\* what a call yields when a write of it went past the end of stack or of
\* function_entry: the process dies, or it goes on with the word written
\* there
PastTheEnd(over, m, outs) ==
  IF over THEN {Fault(m)} \cup {Undefined(o) : o \in outs} ELSE outs

\* a cfg_insert that allocates a function id for every target of a CALL,
\* known or not
cfg_insert_naming(m, CFG, ins) ==
  IF CFG = NULL THEN {Out(m, NULL)}
  ELSE
    LET new == hashtable_lookup(m, ins)
        isCall == m.nodes[CFG].instruction.type = CALL
    IN  IF new = NULL
        THEN LET r == cfg_new(m, ins)
                 m1 == IF isCall
                       THEN Push(NewFunction(r.m, r.ret), CFG)
                       ELSE r.m
                 over == isCall /\ (\/ m.nb_name + 1 >= FUNCTION_ENTRY_SIZE
                                    \/ m.depth >= STACK_SIZE)
             IN  PastTheEnd(over, r.m, aux_cfg_insert(m1, CFG, r.ret))
        ELSE LET m1 == IF isCall THEN Push(NewFunction(m, new), CFG) ELSE m
                 over == isCall /\ m.depth >= STACK_SIZE
             IN  PastTheEnd(over, m,
                            IF IsSuccessor(m1, CFG, new)
                            THEN {Out(m1, new)}
                            ELSE aux_cfg_insert(m1, CFG, new))

cfg_insert(m, CFG, ins) ==
  IF CFG = NULL THEN {Out(m, NULL)}
  ELSE
    LET new == hashtable_lookup(m, ins)
        isCall == m.nodes[CFG].instruction.type = CALL
    IN  IF new = NULL
        THEN LET r == cfg_new(m, ins)
                 m1 == IF isCall
                       THEN Push(NewFunction(r.m, r.ret), CFG)
                       ELSE r.m
                 over == isCall /\ (\/ m.nb_name + 1 >= FUNCTION_ENTRY_SIZE
                                    \/ m.depth >= STACK_SIZE)
             IN  PastTheEnd(over, r.m, aux_cfg_insert(m1, CFG, r.ret))
        ELSE LET m1 == IF isCall THEN Push(m, CFG) ELSE m
                 over == isCall /\ m.depth >= STACK_SIZE
             IN  PastTheEnd(over, m,
                            IF IsSuccessor(m1, CFG, new)
                            THEN {Out(m1, new)}
                            ELSE aux_cfg_insert(m1, CFG, new))

\* the instr_delete (ins) calls of cfg_insert: one when the lookup finds a
\* node
ReleasedByInsert(m, CFG, ins) ==
  IF CFG # NULL /\ hashtable_lookup(m, ins) # NULL THEN 1 ELSE 0

\* What a call passes to free (), in order: what is released and the node
\* it belongs to (for a bucket its index).
\* a cfg_delete that leaves the instruction record alone
cfg_delete_shallow(CFG) ==
  <<[what |-> "successor", of |-> CFG],
    [what |-> "str_graph", of |-> CFG],
    [what |-> "node", of |-> CFG]>>

\* cfg_delete (CFG), CFG not NULL: instr_delete (CFG->instruction), then
\* the successor list, str_graph and the node
cfg_delete(CFG) ==
  <<[what |-> "instruction", of |-> CFG],
    [what |-> "successor", of |-> CFG],
    [what |-> "str_graph", of |-> CFG],
    [what |-> "node", of |-> CFG]>>

\* while (ht->buckets[i][j] != NULL) cfg_delete (ht->buckets[i][j++]);
RECURSIVE DeleteBucket(_, _)
DeleteBucket(bucket, j) ==
  IF j > Len(bucket) THEN <<>>
  ELSE cfg_delete(bucket[j]) \o DeleteBucket(bucket, j + 1)

\* the loop over the buckets, those of left still to come, lowest index
\* first
RECURSIVE DeleteBuckets(_, _)
DeleteBuckets(t, left) ==
  IF left = {} THEN <<>>
  ELSE LET i == CHOOSE i \in left : \A k \in left : i <= k
       IN  DeleteBucket(t.buckets[i], 1)
             \o <<[what |-> "bucket", of |-> i]>>
             \o DeleteBuckets(t, left \ {i})

hashtable_delete(m) ==
  DeleteBuckets(m.ht, DOMAIN m.ht.buckets)
    \o <<[what |-> "hashtable", of |-> 0]>>

(***************************************************************************)
(* The instruction store of traces.c: a hashtable of instruction records.  *)
(* A bucket is NULL (the empty sequence) or an array of handles closed by  *)
(* a NULL handle (NoRec).                                                   *)
(***************************************************************************)
NoRec == [address |-> 0, size |-> 0, opcodes |-> <<>>]

\* a constructor that copies one byte less
traces_instr_new_short(addr, size, opcodes) ==
  IF size = 0 \/ opcodes = <<>>
  THEN NoRec
  ELSE [address |-> addr, size |-> size,
        opcodes |-> SubSeq(opcodes, 1, size - 1)]

\* instr_new of traces.c; NoRec is the NULL it returns
traces_instr_new(addr, size, opcodes) ==
  IF size = 0 \/ opcodes = <<>>
  THEN NoRec
  ELSE [address |-> addr, size |-> size, opcodes |-> SubSeq(opcodes, 1, size)]

\* strncmp of the C library on bytes: at most n of them, and none after a
\* byte that is 0 in both
RECURSIVE StrncmpFrom(_, _, _, _)
StrncmpFrom(s1, s2, n, i) ==
  IF i > n THEN 0
  ELSE IF s1[i] # s2[i] THEN s1[i] - s2[i]
  ELSE IF s1[i] = 0 THEN 0
  ELSE StrncmpFrom(s1, s2, n, i + 1)

strncmp(s1, s2, n) == StrncmpFrom(s1, s2, n, 1)

\* the test both scans apply to a handle of the bucket
SameRecord(stored, instr) ==
  /\ stored.address = instr.address
  /\ stored.size = instr.size
  /\ strncmp(stored.opcodes, instr.opcodes, instr.size) = 0

\* a scan that tests the first handle of the bucket only
ScanFirstOnly(bucket_instr, instr, k) ==
  IF SameRecord(bucket_instr[1], instr) THEN [k |-> 0, found |-> TRUE]
  ELSE [k |-> Len(bucket_instr) - 1, found |-> FALSE]

\* the scan of a bucket: the index k it stops at (0-based), and whether it
\* stopped on a handle that passes the test
RECURSIVE ScanBucket(_, _, _)
ScanBucket(bucket_instr, instr, k) ==
  IF bucket_instr[k + 1] = NoRec THEN [k |-> k, found |-> FALSE]
  ELSE IF SameRecord(bucket_instr[k + 1], instr) THEN [k |-> k, found |-> TRUE]
  ELSE ScanBucket(bucket_instr, instr, k + 1)

\* what the store is asked about
Rec(addr, size, buf) == [addr |-> addr, size |-> size, buf |-> buf]
RecP == Rec(1, 2, <<7, 1>>)
RecQ == Rec(2, 1, <<144>>)
RecS == Rec(3, 3, <<5, 0, 1>>)
RecT == Rec(3, 3, <<5, 0, 2>>)
RecU == Rec(1, 2, <<0, 2>>)
RecNone == Rec(4, 0, <<144>>)
StoreInputs == {RecP, RecQ, RecS, RecT, RecU, RecNone}
StoreSizes == {1, 4}

StoreRecords ==
  {traces_instr_new(r.addr, r.size, r.buf) : r \in StoreInputs} \ {NoRec}
StoreHashMemo == [instr \in StoreRecords |-> hash_instr(instr)]
StoreHashOf(instr) ==
  IF instr \in StoreRecords THEN StoreHashMemo[instr] ELSE hash_instr(instr)

\* every record sent to bucket 0
StoreIndexZero(t, instr) == 0

\* hash_instr (instr) % ht->size
StoreIndex(t, instr) == U64Mod(StoreHashOf(instr), t.size)

traces_hashtable_new(size) ==
  IF size = 0 THEN NULL
  ELSE [size |-> size, collisions |-> 0, entries |-> 0,
        buckets |-> [i \in 0..(size - 1) |-> <<>>]]

\* the bucket was NULL: calloc (2, ...), the handle first
InsertFirstCounted(t, index, instr) ==
  [t EXCEPT !.buckets[index] = <<instr, NoRec>>,
            !.entries = @ + 1,
            !.collisions = @ + 1]

InsertFirst(t, index, instr) ==
  [t EXCEPT !.buckets[index] = <<instr, NoRec>>,
            !.entries = @ + 1]

\* the same with collisions left as it was
InsertChainedQuiet(t, index, instr, k) ==
  [t EXCEPT !.entries = @ + 1,
            !.buckets[index] = SubSeq(@, 1, k) \o <<instr, NoRec>>]

\* the bucket held k handles: calloc (k + 2, ...), the k copied, the handle
InsertChained(t, index, instr, k) ==
  [t EXCEPT !.collisions = @ + 1,
            !.entries = @ + 1,
            !.buckets[index] = SubSeq(@, 1, k) \o <<instr, NoRec>>]

traces_hashtable_insert(t, instr) ==
  IF instr = NoRec THEN [ht |-> t, ret |-> FALSE]
  ELSE
    LET index == StoreIndex(t, instr)
    IN  IF t.buckets[index] = <<>>
        THEN [ht |-> InsertFirst(t, index, instr), ret |-> TRUE]
        ELSE LET scan == ScanBucket(t.buckets[index], instr, 0)
             IN  IF scan.found
                 THEN [ht |-> t, ret |-> FALSE]
                 ELSE [ht |-> InsertChained(t, index, instr, scan.k),
                       ret |-> TRUE]

traces_hashtable_lookup(t, instr) ==
  IF instr = NoRec THEN FALSE
  ELSE
    LET index == StoreIndex(t, instr)
    IN  IF t.buckets[index] = <<>>
        THEN FALSE
        ELSE ScanBucket(t.buckets[index], instr, 0).found

traces_hashtable_entries(t) == t.entries
traces_hashtable_collisions(t) == t.collisions
hashtable_filled_buckets(t) ==
  Cardinality({index \in 0..(t.size - 1) : t.buckets[index] # <<>>})

\* store       the hashtable_t of traces.c
\* store_last  the last call made on it and what it returned
\* store_hist  the hashtable_insert calls so far: the record, the bucket
\*             index it hashed to and the value returned
\* calls       the number of calls made
VARIABLES store, store_last, store_hist, calls

\* errno of the C library
VARIABLES errno

EINVAL == 22

\* errno after instr_new (either file)
ErrnoKept(e, size, opcodes) == e
ErrnoAfterNew(e, size, opcodes) ==
  IF size = 0 \/ opcodes = <<>> THEN EINVAL ELSE e

\* errno after hashtable_new (size) and after hashtable_insert (ht, instr) or
\* hashtable_lookup (ht, instr); t is the pointer ht, instr a record or NoRec
ErrnoIgnored(e, t, instr) == e
ErrnoAfterTableNew(e, size) == IF size = 0 THEN EINVAL ELSE e
ErrnoAfterTableCall(e, t, instr) ==
  IF t = NULL \/ instr = NoRec THEN EINVAL ELSE e

\* the pointer to the table the test built
TheStore == 1

MaxCalls == 4

storevars == <<store, store_last, store_hist, calls>>

NoStoreCall == [op |-> "none", instr |-> NoRec, ret |-> FALSE]

InitStoreWith(sizes) ==
  /\ \E size \in sizes : store = traces_hashtable_new(size)
  /\ store_last = NoStoreCall
  /\ store_hist = <<>>
  /\ calls = 0

instr_or_null(r) == traces_instr_new(r.addr, r.size, r.buf)

\* instr_new then hashtable_insert
StoreInsert(r) ==
  /\ calls < MaxCalls
  /\ LET instr == traces_instr_new(r.addr, r.size, r.buf)
         res == traces_hashtable_insert(store, instr)
     IN  /\ store' = res.ht
         /\ store_last' = [op |-> "insert", instr |-> instr, ret |-> res.ret]
         /\ store_hist' =
              Append(store_hist,
                     [instr |-> instr,
                      index |-> IF instr = NoRec THEN NULL
                                ELSE StoreIndex(store, instr),
                      ret |-> res.ret])
  /\ calls' = calls + 1
  /\ errno' = ErrnoAfterTableCall(ErrnoAfterNew(errno, r.size, r.buf),
                                  TheStore, instr_or_null(r))

\* instr_new then hashtable_lookup
StoreLookup(r) ==
  /\ calls < MaxCalls
  /\ LET instr == traces_instr_new(r.addr, r.size, r.buf)
     IN  store_last' = [op |-> "lookup", instr |-> instr,
                        ret |-> traces_hashtable_lookup(store, instr)]
  /\ calls' = calls + 1
  /\ errno' = ErrnoAfterTableCall(ErrnoAfterNew(errno, r.size, r.buf),
                                  TheStore, instr_or_null(r))
  /\ UNCHANGED <<store, store_hist>>

\* hashtable_insert (NULL, instr) and hashtable_lookup (NULL, instr)
StoreCallOnNull(op, r) ==
  /\ store_last' = [op |-> op, instr |-> instr_or_null(r), ret |-> FALSE]
  /\ errno' = ErrnoAfterTableCall(ErrnoAfterNew(errno, r.size, r.buf),
                                  NULL, instr_or_null(r))
  /\ UNCHANGED <<store, store_hist, calls>>

\* hashtable_new (0); ret: the table returned is not NULL
StoreNewZero ==
  /\ store_last' = [op |-> "new", instr |-> NoRec,
                    ret |-> traces_hashtable_new(0) # NULL]
  /\ errno' = ErrnoAfterTableNew(errno, 0)
  /\ UNCHANGED <<store, store_hist, calls>>

(***************************************************************************)
(* The execution trace of traces.c: a singly linked list of tnode_t, each  *)
(* holding an instruction handle.  A tnode_t pointer is an index into the  *)
(* heap of nodes, NULL is 0; a handle is the address of a record.          *)
(***************************************************************************)
TraceHandles == {1, 2}

trace_new == [head |-> NULL, tail |-> NULL]

trace_append(h, t, instr) ==
  IF instr = NULL
  THEN [heap |-> h, tr |-> t, ret |-> -1]
  ELSE LET node == Len(h) + 1
           h1 == Append(h, [instr |-> instr, next |-> NULL])
       IN  IF t.head = NULL
           THEN [heap |-> h1, tr |-> [head |-> node, tail |-> node],
                 ret |-> 0]
           ELSE [heap |-> [h1 EXCEPT ![t.tail].next = node],
                 tr |-> [t EXCEPT !.tail = node],
                 ret |-> 0]

\* errno after trace_append (tr, instr) and after trace_get (tr, index); tr is
\* a pointer, NULL or one of Traces
ErrnoUnset(e, t, arg) == e
ErrnoAfterAppend(e, t, instr) ==
  IF t = NULL \/ instr = NULL THEN EINVAL ELSE e
ErrnoAfterGet(e, t, index) ==
  IF t = NULL \/ index < 1 THEN EINVAL ELSE e

\* what a call hands back; fault: the process died; ub: it read through NULL
Returned(v) == [ret |-> v, fault |-> FALSE, ub |-> FALSE]

\* a read through a NULL tnode_t pointer: the process dies, or the read
\* yields whatever lies there
NullRead ==
  {[ret |-> NULL, fault |-> TRUE, ub |-> TRUE]}
    \cup {[ret |-> v, fault |-> FALSE, ub |-> TRUE] :
            v \in TraceHandles \cup {NULL}}

\* the loop of trace_get and its return
RECURSIVE GetWalk(_, _, _, _)
GetWalk(h, current, k, index) ==
  IF k < index - 1
  THEN IF current = NULL THEN NullRead
       ELSE IF h[current].next = NULL THEN {Returned(NULL)}
       ELSE GetWalk(h, h[current].next, k + 1, index)
  ELSE IF current = NULL THEN NullRead
       ELSE {Returned(h[current].instr)}

trace_get(h, t, index) ==
  IF index < 1 THEN {Returned(NULL)}
  ELSE GetWalk(h, t.head, 0, index)

RECURSIVE LengthWalk(_, _, _)
LengthWalk(h, node, length) ==
  IF node = NULL THEN length
  ELSE LengthWalk(h, h[node].next, length + 1)

trace_length(h, t) == LengthWalk(h, t.head, 0)

\* the loop of trace_compare, entered with two nodes
RECURSIVE CompareWalk(_, _, _, _)
CompareWalk(h, n1, n2, count) ==
  IF h[n1].instr = h[n2].instr
  THEN LET a == h[n1].next
           b == h[n2].next
       IN  IF a = NULL /\ b = NULL THEN 0
           ELSE IF a = NULL \/ b = NULL THEN count + 1
           ELSE CompareWalk(h, a, b, count + 1)
  ELSE count

\* a comparison that counts positions from 0
trace_compare_from_zero(h, t1, t2) ==
  IF t1.head = NULL \/ t2.head = NULL THEN 1
  ELSE CompareWalk(h, t1.head, t2.head, 0)

trace_compare(h, t1, t2) ==
  IF t1.head = NULL \/ t2.head = NULL THEN 1
  ELSE CompareWalk(h, t1.head, t2.head, 1)

\* the nodes the loop of trace_delete frees from node on: each node that
\* has a next one
RECURSIVE DeleteWalk(_, _, _)
DeleteWalk(h, node, freed) ==
  IF h[node].next = NULL THEN freed
  ELSE DeleteWalk(h, h[node].next, freed \cup {node})

\* what trace_delete (tr) passes to free (), tr not NULL
trace_delete(h, t) ==
  IF t.head = NULL \/ t.tail = NULL
  THEN [nodes |-> {}, trace |-> FALSE, instrs |-> {}]
  ELSE [nodes |-> DeleteWalk(h, t.head, {}), trace |-> TRUE, instrs |-> {}]

\* tnodes      the tnode_t allocated so far
\* tr          the two traces the calls are made on
\* appended    for each trace, the handles appended to it, in order
\* trace_last  the last call made and what it returned
\* trace_freed  what trace_delete has passed to free () so far: the tnode_t
\*              (nodes), the trace_t (traces) and the instruction records
\*              (instrs), and the traces it was called on (deleted)
VARIABLES tnodes, tr, appended, trace_last, trace_freed

MaxAppends == 4

tracevars == <<tnodes, tr, appended, trace_last, trace_freed>>

Traces == {1, 2}

NoTraceCall ==
  [op |-> "none", t |-> 0, arg |-> 0, ret |-> 0, fault |-> FALSE,
   ub |-> FALSE]

InitTrace ==
  /\ tnodes = <<>>
  /\ tr = [t \in Traces |-> trace_new]
  /\ appended = [t \in Traces |-> <<>>]
  /\ trace_last = NoTraceCall
  /\ trace_freed = [nodes |-> {}, traces |-> {}, instrs |-> {},
                    deleted |-> {}]

Alive == ~trace_last.fault

\* the callers pass no trace that was given to trace_delete
Usable(t) == t \notin trace_freed.deleted

TraceAppend(t, instr) ==
  /\ Alive
  /\ Usable(t)
  /\ UNCHANGED trace_freed
  /\ Len(tnodes) < MaxAppends
  /\ IF t = NULL
     THEN /\ trace_last' = [op |-> "append", t |-> t, arg |-> instr,
                            ret |-> -1, fault |-> FALSE, ub |-> FALSE]
          /\ UNCHANGED <<tnodes, tr, appended>>
     ELSE LET r == trace_append(tnodes, tr[t], instr)
          IN  /\ tnodes' = r.heap
              /\ tr' = [tr EXCEPT ![t] = r.tr]
              /\ appended' = IF r.ret = 0
                             THEN [appended EXCEPT ![t] = Append(@, instr)]
                             ELSE appended
              /\ trace_last' = [op |-> "append", t |-> t, arg |-> instr,
                                ret |-> r.ret, fault |-> FALSE,
                                ub |-> FALSE]
  /\ errno' = ErrnoAfterAppend(errno, t, instr)

TraceGet(t, index) ==
  /\ Alive
  /\ Usable(t)
  /\ UNCHANGED trace_freed
  /\ \E r \in (IF t = NULL THEN {Returned(NULL)}
                ELSE trace_get(tnodes, tr[t], index)) :
       trace_last' = [op |-> "get", t |-> t, arg |-> index, ret |-> r.ret,
                      fault |-> r.fault, ub |-> r.ub]
  /\ errno' = ErrnoAfterGet(errno, t, index)
  /\ UNCHANGED <<tnodes, tr, appended>>

TraceLength(t) ==
  /\ Alive
  /\ Usable(t)
  /\ UNCHANGED trace_freed
  /\ trace_last' = [op |-> "length", t |-> t, arg |-> 0,
                    ret |-> trace_length(tnodes, tr[t]),
                    fault |-> FALSE, ub |-> FALSE]
  /\ UNCHANGED <<tnodes, tr, appended, errno>>

TraceCompare(t1, t2) ==
  /\ Alive
  /\ Usable(t1)
  /\ Usable(t2)
  /\ UNCHANGED trace_freed
  /\ trace_last' = [op |-> "compare", t |-> t1, arg |-> t2,
                    ret |-> trace_compare(tnodes, tr[t1], tr[t2]),
                    fault |-> FALSE, ub |-> FALSE]
  /\ UNCHANGED <<tnodes, tr, appended, errno>>

\* trace_delete (tr): nothing on NULL
TraceDelete(t) ==
  /\ Alive
  /\ Usable(t)
  /\ IF t = NULL
     THEN UNCHANGED trace_freed
     ELSE LET r == trace_delete(tnodes, tr[t])
          IN  trace_freed' =
                [nodes |-> trace_freed.nodes \cup r.nodes,
                 traces |-> trace_freed.traces
                              \cup (IF r.trace THEN {t} ELSE {}),
                 instrs |-> trace_freed.instrs \cup r.instrs,
                 deleted |-> trace_freed.deleted \cup {t}]
  /\ trace_last' = [op |-> "delete", t |-> t, arg |-> 0, ret |-> 0,
                    fault |-> FALSE, ub |-> FALSE]
  /\ UNCHANGED <<tnodes, tr, appended, errno>>

(***************************************************************************)
(* The instruction constructors called on their own: instr_new of trace.c  *)
(* (with a mnemonic) and instr_new of traces.c with its accessors, as      *)
(* tests/test_traces.c calls them.  The caller's buffer is an array of     *)
(* Len(opcodes) bytes; an absent buffer or mnemonic is a NULL pointer.     *)
(***************************************************************************)

\* a byte read past the end of the caller's array
StrayBytes == {0, 128, 195, 255}
Kinds == {BASIC, BRANCH, CALL, JUMP, RET}

\* opcodes[1] is read: the tests on opcodes[0] before it have passed
ReadsSecond(opcodes) == opcodes[1] \in {15, 65, 243}
\* strstr (str_name, ...) is called
ReadsName(opcodes) == opcodes[1] = 65 /\ opcodes[2] = 255

Made(instr) == [instr |-> instr, fault |-> FALSE, ub |-> FALSE]
MadeUndefined(instr) == [instr |-> instr, fault |-> FALSE, ub |-> TRUE]
Crashed == [instr |-> NoInstr, fault |-> TRUE, ub |-> TRUE]

\* instr_new of trace.c on what a caller may pass: the set of its outcomes.
\* named = FALSE: str_name is NULL.
instr_new_outcomes(addr, size, opcodes, str_name, named) ==
  IF size = 0 \/ opcodes = <<>>
  THEN {Made(NoInstr)}
  ELSE IF ReadsSecond(opcodes) /\ Len(opcodes) < 2
  THEN {Crashed} \cup
       {MadeUndefined([instr_new(addr, size, opcodes \o <<b>>, str_name)
                         EXCEPT !.type = t]) :
          b \in StrayBytes, t \in Kinds}
  ELSE IF ReadsSecond(opcodes) /\ ReadsName(opcodes) /\ ~named
  THEN {Crashed} \cup
       {MadeUndefined([instr_new(addr, size, opcodes, <<>>)
                         EXCEPT !.type = t]) : t \in Kinds}
  ELSE {Made(instr_new(addr, size, opcodes, str_name))}

\* the accessors of traces.c
instr_addr(instr) == instr.address
instr_size(instr) == instr.size
instr_opcodes(instr) == instr.opcodes

\*   given   the arguments of the caller: addr, size, the buffer opcodes
\*           (<<>>: NULL), the mnemonic str_name and whether it is there
\*   built   what instr_new of trace.c returned for them
\*   record  what instr_new of traces.c returned for them
\*   passed  the buffer as it was when record was built
VARIABLES given, built, record, passed

instrvars == <<given, built, record, passed>>

NotBuilt == [instr |-> NoInstr, fault |-> FALSE, ub |-> FALSE, called |-> FALSE]
NotRecorded == [instr |-> NoRec, called |-> FALSE]
NoGiven == [addr |-> 0, size |-> 0, opcodes |-> <<>>, str_name |-> <<>>,
            named |-> FALSE]

\* no constructor is called on its own
InitIdle ==
  /\ given = NoGiven
  /\ built = NotBuilt
  /\ record = NotRecorded
  /\ passed = <<>>
  /\ errno = 0

FirstBytes == {15, 65, 112, 144, 154, 194, 195, 224, 232, 233, 243, 255}
SecondBytes == {0, 128, 195, 255}
GivenSizes == {0, 1, 2, 3, 4, 15}
MAX_OPCODE_BYTES == 16
Mnemonics == {StrCall, StrJmp, MnMov}

\* a buffer of len bytes starting with h, s
Buffer(h, s, len) == [i \in 1..len |-> IF i = 1 THEN h ELSE IF i = 2 THEN s ELSE 0]

\* the buffers a caller has: the bytes of the instruction alone, or the 16
\* bytes read at ip
Buffers(size) ==
  {<<>>} \cup
  {Buffer(h, s, len) : h \in FirstBytes, s \in SecondBytes,
                       len \in {size, MAX_OPCODE_BYTES} \ {0}}

GivenNames ==
  {[str_name |-> str, named |-> TRUE] : str \in Mnemonics}
    \cup {[str_name |-> <<>>, named |-> FALSE]}

GivenAddrs == {0, 4096}

InitGiven ==
  /\ \E a \in GivenAddrs, n \in GivenSizes, nm \in GivenNames :
       \E b \in Buffers(n) :
         given = [addr |-> a, size |-> n, opcodes |-> b,
                  str_name |-> nm.str_name, named |-> nm.named]
  /\ built = NotBuilt
  /\ record = NotRecorded
  /\ passed = <<>>
  /\ errno = 0

\* instr_new (addr, size, opcodes, str_name) of trace.c
InstrNew ==
  /\ ~built.called
  /\ \E o \in instr_new_outcomes(given.addr, given.size, given.opcodes,
                                   given.str_name, given.named) :
       built' = [instr |-> o.instr, fault |-> o.fault, ub |-> o.ub,
                 called |-> TRUE]
  /\ errno' = ErrnoAfterNew(errno, given.size, given.opcodes)
  /\ UNCHANGED <<given, record, passed>>

\* instr_new (addr, size, opcodes) of traces.c
TracesInstrNew ==
  /\ ~record.called
  /\ record' = [instr |-> traces_instr_new(given.addr, given.size,
                                             given.opcodes),
                 called |-> TRUE]
  /\ passed' = given.opcodes
  /\ errno' = ErrnoAfterNew(errno, given.size, given.opcodes)
  /\ UNCHANGED <<given, built>>

\* the caller writes its buffer again, as the loop does at every step
OverwriteBuffer(b) ==
  /\ passed # <<>>
  /\ given.opcodes = passed
  /\ given.opcodes[1] # b
  /\ given' = [given EXCEPT !.opcodes[1] = b]
  /\ UNCHANGED <<built, record, passed, errno>>

(***************************************************************************)
(* The tracing loop of tracker.c (main).  One tracee invocation per input  *)
(* line; ht, cfg and the globals of trace.c live across invocations.       *)
(***************************************************************************)
VARIABLES cfg, cfg_entry, instr_count, pc

\* torn  what hashtable_delete has passed to free (), none before teardown
VARIABLES torn

\* What the loop has done so far, kept to state the properties:
\*   prog        the instructions the tracees can execute
\*   last        the last call of cfg_new / cfg_insert and its result
\*   trace_prev  the instruction executed before, in this invocation
\*   consec      the pairs of instructions executed one after the other
\*   after_ret   the instructions executed right after a RET
\*   pushes      the CALL frames pushed
\*   ret_links   the linkages made with a RET as cur_node
\*   steps, runs the instructions executed since the initial state and the
\*               invocations started
\*   undefined   some call read or wrote out of bounds
\*   released    how many times the record built for the last step was
\*               released (instr_delete)
\*   dangling    the nodes whose instruction record was released
VARIABLES prog, last, trace_prev, consec, after_ret, pushes, ret_links,
          steps, runs, undefined, released, dangling

MaxSteps == 6
MaxRuns == 2

memvars == <<nodes, ht, depth, nb_name, stack, function_entry>>
loopvars == <<cfg, cfg_entry, instr_count, pc, torn>>
histvars == <<prog, last, trace_prev, consec, after_ret, pushes, ret_links,
              steps, runs, undefined, released, dangling>>

\*   op, cur, ins  the call and its arguments
\*   ret           the node returned
\*   fresh         the lookup of ins found no node
\*   linked        aux_cfg_insert was called
\*   depth0, top   depth and stack[depth - 1] (NULL if none) before the call
NoCall == [op |-> "none", cur |-> NULL, ins |-> NoInstr, ret |-> NULL,
           fresh |-> FALSE, linked |-> FALSE, depth0 |-> 0, top |-> NULL]

Top == IF depth >= 1 /\ (depth - 1) \in DOMAIN stack
       THEN stack[depth - 1] ELSE NULL

CfgInit(programs) ==
  /\ nodes = <<>>
  /\ ht = hashtable_new(DEFAULT_HASHTABLE_SIZE)
  /\ depth = 0
  /\ nb_name = 0
  /\ stack = <<>>
  /\ function_entry = <<>>
  /\ cfg = NULL
  /\ cfg_entry = NULL
  /\ instr_count = 0
  /\ pc = "loop"
  /\ torn = <<>>
  /\ prog \in programs
  /\ last = NoCall
  /\ trace_prev = NoInstr
  /\ consec = {}
  /\ after_ret = {}
  /\ pushes = 0
  /\ ret_links = 0
  /\ steps = 0
  /\ runs = 1
  /\ undefined = FALSE
  /\ released = 0
  /\ dangling = {}

\* The primitives of a loop step and the tracee:
\*   at      where the loop is: "wait", "singlestep" or "done" (left)
\*   tracee  "stopped" at an instruction, "exited", or "gone" (killed: no
\*           ptrace request on it succeeds any more)
\*   regs    the instruction pointer in regs (UNINIT before the first read)
\*   peeked  the 16 bytes of buf (none before the first read)
\*   failed  the primitives that failed in the last step of the loop
VARIABLES at, tracee, regs, peeked, failed

ptracevars == <<at, tracee, regs, peeked, failed>>

InitPtrace ==
  /\ at = "wait"
  /\ tracee = "stopped"
  /\ regs = UNINIT
  /\ peeked = <<>>
  /\ failed = {}

\* the store of traces.c is not linked into tracker: it stays as built
InitWith(programs) ==
  /\ CfgInit(programs)
  /\ InitStoreWith({1})
  /\ InitTrace
  /\ InitIdle
  /\ InitPtrace

Init == InitWith(Programs)

SetMem(m) ==
  /\ nodes' = m.nodes
  /\ ht' = m.ht
  /\ depth' = m.depth
  /\ nb_name' = m.nb_name
  /\ stack' = m.stack
  /\ function_entry' = m.function_entry

Executed(instr) ==
  /\ consec' = IF trace_prev = NoInstr THEN consec
               ELSE consec \cup {<<trace_prev, instr>>}
  /\ after_ret' = IF trace_prev.type = RET
                  THEN after_ret \cup {instr}
                  ELSE after_ret
  /\ trace_prev' = instr
  /\ steps' = steps + 1

\* First instruction ever: cfg = cfg_new (instr), then hashtable_insert
StepFirst(p) ==
  /\ pc = "loop"
  /\ steps < MaxSteps
  /\ cfg = NULL
  /\ LET instr == instr_new(p.ip, p.size, p.buf, p.mnemonic)
         r == cfg_new(Mem, instr)
         kept == hashtable_insert(r.m, r.ret)
     IN  /\ SetMem(kept.m)
         /\ released' = IF kept.ret THEN 0 ELSE 1
         /\ dangling' = IF kept.ret THEN dangling
                         ELSE dangling \cup {r.ret}
         /\ cfg' = r.ret
         /\ cfg_entry' = r.ret
         /\ instr_count' = instr_count + 1
         /\ last' = [op |-> "cfg_new", cur |-> NULL, ins |-> instr,
                     ret |-> r.ret, fresh |-> TRUE, linked |-> FALSE,
                     depth0 |-> depth, top |-> Top]
         /\ Executed(instr)
  /\ UNCHANGED <<pc, torn, prog, pushes, ret_links, runs, undefined>>
  /\ UNCHANGED <<storevars, tracevars, instrvars, errno>>

\* Any later instruction: cfg = cfg_insert (ht, cfg, instr)
StepInsert(p) ==
  /\ pc = "loop"
  /\ steps < MaxSteps
  /\ cfg # NULL
  /\ LET instr == instr_new(p.ip, p.size, p.buf, p.mnemonic)
         found == hashtable_lookup(Mem, instr)
         type == nodes[cfg].instruction.type
         linked == found = NULL \/ ~IsSuccessor(Mem, cfg, found)
     IN  \E r \in cfg_insert(Mem, cfg, instr) :
           /\ last' = [op |-> "cfg_insert", cur |-> cfg, ins |-> instr,
                       ret |-> r.ret, fresh |-> (found = NULL),
                       linked |-> linked, depth0 |-> depth, top |-> Top]
           /\ Executed(instr)
           /\ undefined' = (undefined \/ r.ub)
           /\ IF r.fault
              THEN /\ pc' = "fault"
                   /\ released' = ReleasedByInsert(Mem, cfg, instr)
                   /\ UNCHANGED <<memvars, cfg, cfg_entry, instr_count,
                                  torn, pushes, ret_links, dangling>>
              ELSE /\ pushes' = IF type = CALL THEN pushes + 1 ELSE pushes
                   /\ ret_links' = IF type = RET /\ linked
                                   THEN ret_links + 1 ELSE ret_links
                   /\ cfg' = r.ret
                   /\ UNCHANGED cfg_entry
                   /\ IF r.ret = NULL
                      THEN /\ pc' = "insert_failed"
                           /\ SetMem(r.m)
                           /\ torn' = hashtable_delete(r.m)
                           /\ released' = ReleasedByInsert(Mem, cfg, instr)
                           /\ UNCHANGED <<instr_count, dangling>>
                      ELSE LET kept == hashtable_insert(r.m, r.ret)
                           IN  /\ pc' = pc
                               /\ UNCHANGED torn
                               /\ SetMem(kept.m)
                               /\ released' =
                                    ReleasedByInsert(Mem, cfg, instr)
                                      + (IF kept.ret THEN 0 ELSE 1)
                               /\ dangling' =
                                    IF ~kept.ret /\ found = NULL
                                    THEN dangling \cup {r.ret}
                                    ELSE dangling
                               /\ instr_count' = instr_count + 1
  /\ UNCHANGED <<prog, runs>>
  /\ UNCHANGED <<storevars, tracevars, instrvars, errno>>

\* The tracee exited (WIFEXITED) and the next input line starts a tracee
NextInvocation ==
  /\ pc = "loop"
  /\ trace_prev # NoInstr
  /\ runs < MaxRuns
  /\ runs' = runs + 1
  /\ instr_count' = 0
  /\ trace_prev' = NoInstr
  /\ last' = NoCall
  /\ UNCHANGED <<memvars, cfg, cfg_entry, pc, torn, prog, consec, after_ret,
                 pushes, ret_links, steps, undefined, dangling>>
  /\ released' = 0
  /\ UNCHANGED <<storevars, tracevars, instrvars, errno>>

\* The input is at its end: main leaves the loop over the lines and calls
\* hashtable_delete (ht) before it returns
Teardown ==
  /\ pc = "loop"
  /\ trace_prev # NoInstr
  /\ pc' = "done"
  /\ torn' = hashtable_delete(Mem)
  /\ UNCHANGED <<memvars, cfg, cfg_entry, instr_count, histvars>>
  /\ UNCHANGED <<storevars, tracevars, instrvars, errno>>

(***************************************************************************)
(* The primitives of a loop step: wait, PTRACE_GETREGS, PTRACE_PEEKDATA    *)
(* (twice, 8 bytes each), cs_disasm and PTRACE_SINGLESTEP.                 *)
(***************************************************************************)
\* what ptrace (PTRACE_PEEKDATA) returns on failure: -1, eight bytes 0xff
WordFailed == [i \in 1..8 |-> 255]

\* the 8 bytes at ip + off of a tracee stopped at p (its memory after the
\* bytes of the instruction is 0 here)
WordAt(p, off) ==
  [i \in 1..8 |-> IF off + i <= Len(p.buf) THEN p.buf[off + i] ELSE 0]

\* the two reads of the loop; lo and hi: the read succeeded
Peek(p, lo, hi) ==
  (IF lo THEN WordAt(p, 0) ELSE WordFailed)
    \o (IF hi THEN WordAt(p, 8) ELSE WordFailed)

\* cs_disasm on the bytes: the decodings (size and mnemonic of insn[0]) of
\* the instructions the bytes start with; none: count = 0
cs_disasm(bytes) ==
  {[size |-> q.size, mnemonic |-> q.mnemonic] :
     q \in {q \in AllInsns :
              SubSeq(bytes, 1, q.size) = SubSeq(q.buf, 1, q.size)}}

\* the outcomes of the two reads: both done, the second failed (the page
\* after the instruction is not mapped), both failed
PeekOutcomes == {<<TRUE, TRUE>>, <<TRUE, FALSE>>, <<FALSE, FALSE>>}

\* a pass that counts the instruction although nothing was decoded
StepOverCounted ==
  /\ instr_count' = instr_count + 1
  /\ UNCHANGED <<memvars, cfg, cfg_entry, pc, torn, histvars, storevars,
                 tracevars, instrvars, errno>>

\* count == 0: the body of if (count > 0) is not run
StepOver ==
  UNCHANGED <<memvars, loopvars, histvars, storevars, tracevars, instrvars,
              errno>>

\* One pass of the loop body, from wait to the call of PTRACE_SINGLESTEP,
\* on a tracee stopped at p (or gone).  No return value of ptrace is tested.
TraceeStep(p, peek) ==
  /\ at = "wait"
  /\ pc = "loop"
  /\ tracee # "exited"
  /\ LET alive == tracee = "stopped"
         lo == alive /\ peek[1]
         hi == alive /\ peek[2]
         ip == IF alive THEN p.ip ELSE regs
         bytes == Peek(p, lo, hi)
         insn == cs_disasm(bytes)
     IN  /\ regs' = ip
         /\ peeked' = bytes
         /\ failed' = (IF alive THEN {} ELSE {"getregs"})
                         \cup (IF lo /\ hi THEN {} ELSE {"peek"})
         /\ IF insn = {}
            THEN StepOver
            ELSE \E d \in insn :
                   LET q == [ip |-> ip, size |-> d.size, buf |-> bytes,
                             mnemonic |-> d.mnemonic]
                   IN  StepFirst(q) \/ StepInsert(q)
  /\ at' = "singlestep"
  /\ UNCHANGED tracee

\* while (ptrace (PTRACE_SINGLESTEP, child, NULL, NULL)); on a tracee that is
\* gone every call returns -1 and the loop calls again
SingleStep ==
  /\ at = "singlestep"
  /\ pc = "loop"
  /\ IF tracee = "gone"
     THEN /\ failed' = failed \cup {"singlestep"}
          /\ UNCHANGED <<at, tracee>>
     ELSE /\ at' = "wait"
          /\ tracee' \in {"stopped", "exited"}
          /\ UNCHANGED failed
  /\ UNCHANGED <<regs, peeked>>
  /\ UNCHANGED <<memvars, loopvars, histvars, storevars, tracevars,
                 instrvars, errno>>

\* the tracee is killed while it is stopped
TraceeKilled ==
  /\ tracee = "stopped"
  /\ at # "done"
  /\ tracee' = "gone"
  /\ UNCHANGED <<at, regs, peeked, failed>>
  /\ UNCHANGED <<memvars, loopvars, histvars, storevars, tracevars,
                 instrvars, errno>>

\* wait: WIFEXITED (status), break
LoopExit ==
  /\ at = "wait"
  /\ pc = "loop"
  /\ tracee = "exited"
  /\ at' = "done"
  /\ UNCHANGED <<tracee, regs, peeked, failed>>
  /\ UNCHANGED <<memvars, loopvars, histvars, storevars, tracevars,
                 instrvars, errno>>

vars == <<memvars, loopvars, histvars, storevars, tracevars, instrvars,
          errno, ptracevars>>

Next ==
  \/ \E p \in prog : StepFirst(p) /\ UNCHANGED ptracevars
  \/ \E p \in prog : StepInsert(p) /\ UNCHANGED ptracevars

\* one tracee
Spec == Init /\ [][Next]_vars

\* a batch input: several tracees, one per input line
BatchPrograms == { {InsA, InsC, InsD}, {InsB, InsD, InsE} }

InitBatch == InitWith(BatchPrograms)

NextBatch ==
  \/ \E p \in prog : StepFirst(p) /\ UNCHANGED ptracevars
  \/ \E p \in prog : StepInsert(p) /\ UNCHANGED ptracevars
  \/ NextInvocation /\ UNCHANGED ptracevars
  \/ Teardown /\ UNCHANGED ptracevars

\* one tracee, with the primitives of each step and their failures
NextTracee ==
  \/ \E p \in prog, peek \in PeekOutcomes : TraceeStep(p, peek)
  \/ SingleStep
  \/ TraceeKilled
  \/ LoopExit

TraceePrograms == { {InsB, InsC, InsD} }

InitTracee == InitWith(TraceePrograms)

SpecTracee == InitTracee /\ [][NextTracee]_vars /\ WF_vars(NextTracee)

SpecBatch == InitBatch /\ [][NextBatch]_vars

\* the store of traces.c on its own, as tests/test_traces.c drives it
InitStore ==
  /\ CfgInit({{}})
  /\ InitStoreWith(StoreSizes)
  /\ InitTrace
  /\ InitIdle
  /\ InitPtrace

storeidle == <<memvars, loopvars, histvars, tracevars, instrvars, ptracevars>>

NextStore ==
  \/ \E r \in StoreInputs : StoreInsert(r) /\ UNCHANGED storeidle
  \/ \E r \in StoreInputs : StoreLookup(r) /\ UNCHANGED storeidle
  \/ \E r \in {RecP, RecNone}, op \in {"insert_null", "lookup_null"} :
       StoreCallOnNull(op, r) /\ UNCHANGED storeidle
  \/ StoreNewZero /\ UNCHANGED storeidle

SpecStore == InitStore /\ [][NextStore]_vars

\* The loop after a tracee has executed the instructions of a sequence, as
\* StepFirst and StepInsert leave it; the sequences replayed here lead to
\* no out-of-bounds access and no refusal.
LoopStart ==
  [m |-> [nodes |-> <<>>, ht |-> hashtable_new(DEFAULT_HASHTABLE_SIZE),
          depth |-> 0, nb_name |-> 0, stack |-> <<>>,
          function_entry |-> <<>>],
   cfg |-> NULL, cfg_entry |-> NULL, instr_count |-> 0,
   trace_prev |-> NoInstr, pushes |-> 0,
   ret_links |-> 0, last |-> NoCall, released |-> 0]

TopOf(m) == IF m.depth >= 1 /\ (m.depth - 1) \in DOMAIN m.stack
            THEN m.stack[m.depth - 1] ELSE NULL

\* the step of the loop that creates the first node: r is what cfg_new
\* returned and kept what hashtable_insert returned
ReplayFirst(w, instr, r, kept) ==
  [w EXCEPT !.m = kept.m, !.cfg = r.ret, !.cfg_entry = r.ret,
            !.instr_count = @ + 1, !.trace_prev = instr,
            !.released = IF kept.ret THEN 0 ELSE 1,
            !.last = [op |-> "cfg_new", cur |-> NULL, ins |-> instr,
                      ret |-> r.ret, fresh |-> TRUE, linked |-> FALSE,
                      depth0 |-> w.m.depth, top |-> TopOf(w.m)]]

\* a later step: found is what hashtable_lookup gave before the call, r what
\* cfg_insert returned, kept what hashtable_insert returned, freed the
\* records cfg_insert released
ReplayInsert(w, instr, found, linked, r, kept, freed) ==
  [w EXCEPT !.m = kept.m, !.cfg = r.ret,
            !.instr_count = @ + 1, !.trace_prev = instr,
            !.pushes = IF w.m.nodes[w.cfg].instruction.type = CALL
                       THEN @ + 1 ELSE @,
            !.ret_links = IF w.m.nodes[w.cfg].instruction.type = RET
                             /\ linked
                          THEN @ + 1 ELSE @,
            !.released = freed + (IF kept.ret THEN 0 ELSE 1),
            !.last = [op |-> "cfg_insert", cur |-> w.cfg, ins |-> instr,
                      ret |-> r.ret, fresh |-> (found = NULL),
                      linked |-> linked, depth0 |-> w.m.depth,
                      top |-> TopOf(w.m)]]

ReplayKeep(w, instr, found, r) ==
  IF w.cfg = NULL
  THEN ReplayFirst(w, instr, r, hashtable_insert(r.m, r.ret))
  ELSE ReplayInsert(w, instr, found,
                    found = NULL \/ ~IsSuccessor(w.m, w.cfg, found),
                    r, hashtable_insert(r.m, r.ret),
                    ReleasedByInsert(w.m, w.cfg, instr))

ReplayInstr(w, instr) ==
  ReplayKeep(w, instr, hashtable_lookup(w.m, instr),
             IF w.cfg = NULL THEN cfg_new(w.m, instr)
             ELSE CHOOSE o \in cfg_insert(w.m, w.cfg, instr) :
                    ~o.ub /\ o.ret # NULL)

ReplayStep(w, p) == ReplayInstr(w, instr_new(p.ip, p.size, p.buf, p.mnemonic))

\* the steps lo..hi of a sequence, in order, as long as the loop goes on
\* (split in halves to keep the evaluation shallow)
RECURSIVE Replay(_, _, _, _)
Replay(w, seq, lo, hi) ==
  IF lo > hi THEN w
  ELSE IF lo = hi THEN ReplayStep(w, seq[lo])
  ELSE LET mid == (lo + hi) \div 2
       IN  CHOOSE end \in
             {IF half.cfg = NULL THEN half
              ELSE Replay(half, seq, mid + 1, hi) :
                half \in {Replay(w, seq, lo, mid)}} : TRUE

\* A recursion: the call at 1 executed again and again from inside the
\* function it calls, never returning; each call pushes a frame.
Recursion(n) ==
  [i \in 1..(2 * n) |-> IF i % 2 = 1 THEN InsB ELSE InsC]

InstrAt(seq, i) ==
  instr_new(seq[i].ip, seq[i].size, seq[i].buf, seq[i].mnemonic)

\* the pairs of instructions executed one after the other in a sequence,
\* and the instructions executed right after a RET
Consecutive(seq) ==
  {<<InstrAt(seq, i), InstrAt(seq, i + 1)>> : i \in 1..(Len(seq) - 1)}
AfterRet(seq) ==
  {InstrAt(seq, i + 1) :
     i \in {j \in 1..(Len(seq) - 1) : InstrAt(seq, j).type = RET}}

DeepPrograms == { {InsB, InsC}, {InsB, InsC, InsD} }
DeepCalls == {STACK_SIZE - 2, STACK_SIZE - 1}
DeepStates ==
  {[w |-> Replay(LoopStart, Recursion(n), 1, 2 * n),
    consec |-> Consecutive(Recursion(n)),
    after_ret |-> AfterRet(Recursion(n))] : n \in DeepCalls}

\* a tracee deep in that recursion, one or two frames below the bound
InitDeep ==
  /\ \E d \in DeepStates :
       /\ nodes = d.w.m.nodes
       /\ ht = d.w.m.ht
       /\ depth = d.w.m.depth
       /\ nb_name = d.w.m.nb_name
       /\ stack = d.w.m.stack
       /\ function_entry = d.w.m.function_entry
       /\ cfg = d.w.cfg
       /\ cfg_entry = d.w.cfg_entry
       /\ instr_count = d.w.instr_count
       /\ last = d.w.last
       /\ trace_prev = d.w.trace_prev
       /\ pushes = d.w.pushes
       /\ ret_links = d.w.ret_links
       /\ released = d.w.released
       /\ consec = d.consec
       /\ after_ret = d.after_ret
  /\ pc = "loop"
  /\ torn = <<>>
  /\ prog \in DeepPrograms
  /\ steps = 0
  /\ runs = 1
  /\ undefined = FALSE
  /\ dangling = {}
  /\ InitStoreWith({1})
  /\ InitTrace
  /\ InitIdle
  /\ InitPtrace

NextDeep == \E p \in prog : StepInsert(p) /\ UNCHANGED ptracevars

SpecDeep == InitDeep /\ [][NextDeep]_vars

\* A tracee that went down the chain of functions: CallAt(1) .. CallAt(n)
\* executed, each but the first the fresh target of the CALL before it.
Chain(n) == [i \in 1..n |-> CallAt(i)]

NamesPrograms ==
  { {CallAt(FUNCTION_ENTRY_SIZE - 1), CallAt(FUNCTION_ENTRY_SIZE),
     CallAt(FUNCTION_ENTRY_SIZE + 1), InsC} }
NamesCalls == {FUNCTION_ENTRY_SIZE - 2, FUNCTION_ENTRY_SIZE - 1}
NamesStates ==
  {[w |-> Replay(LoopStart, Chain(n), 1, n),
    consec |-> Consecutive(Chain(n)),
    after_ret |-> AfterRet(Chain(n))] : n \in NamesCalls}

\* function_entry one or two entries short of full
InitNames ==
  /\ \E d \in NamesStates :
       /\ nodes = d.w.m.nodes
       /\ ht = d.w.m.ht
       /\ depth = d.w.m.depth
       /\ nb_name = d.w.m.nb_name
       /\ stack = d.w.m.stack
       /\ function_entry = d.w.m.function_entry
       /\ cfg = d.w.cfg
       /\ cfg_entry = d.w.cfg_entry
       /\ instr_count = d.w.instr_count
       /\ last = d.w.last
       /\ trace_prev = d.w.trace_prev
       /\ pushes = d.w.pushes
       /\ ret_links = d.w.ret_links
       /\ released = d.w.released
       /\ consec = d.consec
       /\ after_ret = d.after_ret
  /\ pc = "loop"
  /\ torn = <<>>
  /\ prog \in NamesPrograms
  /\ steps = 0
  /\ runs = 1
  /\ undefined = FALSE
  /\ dangling = {}
  /\ InitStoreWith({1})
  /\ InitTrace
  /\ InitIdle
  /\ InitPtrace

NextNames == \E p \in prog : StepInsert(p) /\ UNCHANGED ptracevars

SpecNames == InitNames /\ [][NextNames]_vars

\* the traces of traces.c on their own, as tests/test_traces.c drives them
InitTraces ==
  /\ CfgInit({{}})
  /\ InitStoreWith({1})
  /\ InitTrace
  /\ InitIdle
  /\ InitPtrace

cfgvars == <<memvars, loopvars, histvars, storevars, instrvars, ptracevars>>

\* the instruction constructors on their own
InitInstr ==
  /\ CfgInit({{}})
  /\ InitStoreWith({1})
  /\ InitTrace
  /\ InitGiven
  /\ InitPtrace

loopidle == <<memvars, loopvars, histvars, storevars, tracevars, ptracevars>>

NextInstr ==
  \/ InstrNew /\ UNCHANGED loopidle
  \/ TracesInstrNew /\ UNCHANGED loopidle
  \/ \E b \in StrayBytes : OverwriteBuffer(b) /\ UNCHANGED loopidle

SpecInstr == InitInstr /\ [][NextInstr]_vars

NextTraces ==
  \/ \E t \in Traces \cup {NULL}, instr \in TraceHandles \cup {NULL} :
       TraceAppend(t, instr) /\ UNCHANGED cfgvars
  \/ \E t \in Traces \cup {NULL}, index \in 0..(MaxAppends + 1) :
       TraceGet(t, index) /\ UNCHANGED cfgvars
  \/ \E t \in Traces : TraceLength(t) /\ UNCHANGED cfgvars
  \/ \E t1, t2 \in Traces : TraceCompare(t1, t2) /\ UNCHANGED cfgvars
  \/ \E t \in Traces \cup {NULL} : TraceDelete(t) /\ UNCHANGED cfgvars

SpecTraces == InitTraces /\ [][NextTraces]_vars

(***************************************************************************)
(* Properties of the CFG builder.                                          *)
(***************************************************************************)
Handles == 1..Len(nodes)
Successors(n) == {nodes[n].successor[i] : i \in 1..nodes[n].nb_out}
TypeOf(n) == nodes[n].instruction.type
AddressOf(n) == nodes[n].instruction.address
SizeOf(n) == nodes[n].instruction.size
Inserted == last.op = "cfg_insert" /\ pc # "fault"
\* ... and every call so far stayed within the bounds of its arrays
InsertedDefined == Inserted /\ ~undefined

\* the last call had a RET as cur_node and ins lies right after the CALL
\* that was on top of the call stack
ReturnToFollower ==
  /\ Inserted
  /\ TypeOf(last.cur) = RET
  /\ last.top # NULL
  /\ last.ins.address = AddressOf(last.top) + SizeOf(last.top)

\* the return site went to the caller's list, not to the RET's, and the
\* frame of the caller is gone
ReturnLinked ==
  /\ depth = last.depth0 - 1
  /\ nodes[last.top].nb_out >= 1
  /\ nodes[last.top].successor[nodes[last.top].nb_out] = last.ret
  /\ last.ret \notin Successors(last.cur)

\* C1: no CFG node has two entries of its successor list that refer to the
\* same destination node, whatever cfg_new / cfg_insert calls were made.
C1_NoDuplicateSuccessor ==
  ~undefined =>
  \A n \in Handles :
    \A i, j \in 1..nodes[n].nb_out :
      i # j => nodes[n].successor[i] # nodes[n].successor[j]

SeenInstrs ==
  ({trace_prev} \cup {p[1] : p \in consec} \cup {p[2] : p \in consec})
    \ {NoInstr}

\* C5: two observed instructions with the same address and different
\* opcode bytes are two CFG nodes, each with its own record, and the node
\* handed back for an instruction is never the node of the other one.
C5_OneNodePerIdentity ==
  ~undefined =>
    /\ \A i \in SeenInstrs : \E n \in Handles : nodes[n].instruction = i
    /\ (last.op # "none" /\ last.ret # NULL)
         => nodes[last.ret].instruction = last.ins

\* C6: every edge u -> v of the CFG was executed: v right after u in one
\* tracee, or u is a CALL and v was executed right after a RET, at
\* u.address + u.size.
C6_EdgesWitnessed ==
  ~undefined =>
  \A u \in Handles :
    \A v \in Successors(u) :
      \/ <<nodes[u].instruction, nodes[v].instruction>> \in consec
      \/ /\ TypeOf(u) = CALL
         /\ nodes[v].instruction \in after_ret
         /\ AddressOf(v) = AddressOf(u) + SizeOf(u)

\* C7: a linkage with a RET as cur_node and a pending frame leaves depth one
\* less than before, whether or not the new node lies right after the
\* caller on top of the stack.
C7_RetPopsOneFrame ==
  (InsertedDefined /\ TypeOf(last.cur) = RET /\ last.linked
   /\ last.depth0 >= 1)
    => depth = last.depth0 - 1

\* C8: a node freshly created as the target of a CALL gets the function id
\* allocated for it (the first being 1), not the id of the caller.
C8_CalleeGetsNewFunctionId ==
  (InsertedDefined /\ last.ret # NULL /\ TypeOf(last.cur) = CALL
   /\ last.fresh)
    => (nb_name >= 1 /\ nodes[last.ret].name = nb_name)

\* C9: a BRANCH node has at most two successors, and a destination
\* cfg_insert hands back for it is one of them: its first two distinct
\* destinations are successor[0] and successor[1].
C9_BranchCap ==
  /\ \A n \in Handles : TypeOf(n) = BRANCH => nodes[n].nb_out <= 2
  /\ (InsertedDefined /\ TypeOf(last.cur) = BRANCH /\ last.ret # NULL)
       => last.ret \in Successors(last.cur)

\* the refusal of a third destination leaves the node and every in_degree
\* as they were
BranchRefusalKeepsNode ==
  [][(steps' = steps + 1 /\ cfg # NULL /\ TypeOf(cfg) = BRANCH
      /\ pc' # "fault" /\ last'.ret = NULL)
     => (/\ nodes[cfg].nb_out = 2
         /\ nodes'[cfg] = nodes[cfg]
         /\ \A n \in Handles : nodes'[n].nb_in = nodes[n].nb_in)]_vars

\* C10: when cfg_insert returns a node, the edge of the step is in the CFG:
\* the node is a successor of cur_node or, for a RET matched to its caller,
\* a successor of that caller.
C10_StepHasEdge ==
  (InsertedDefined /\ last.ret # NULL)
    => \/ last.ret \in Successors(last.cur)
       \/ /\ ReturnToFollower
          /\ last.ret \in Successors(last.top)

Predecessors(n) == {u \in Handles : n \in Successors(u)}

\* C11: the in_degree (nb_in) of each node is the number of distinct nodes
\* whose successor list contains it.
C11_InDegreeCountsPredecessors ==
  ~undefined =>
    \A n \in Handles : nodes[n].nb_in = Cardinality(Predecessors(n))

\* a slot of a successor list that holds a node handle
HoldsNode(n, i) == nodes[n].successor[i] \in Handles

\* C12: the out_degree (nb_out) of each node is the length of its successor
\* list: the slots successor[0 .. nb_out - 1] all hold node handles and no
\* slot from nb_out on holds one.
C12_OutDegreeIsListLength ==
  \A n \in Handles :
    /\ nodes[n].nb_out <= Len(nodes[n].successor)
    /\ \A i \in 1..Len(nodes[n].successor) :
         HoldsNode(n, i) <=> i <= nodes[n].nb_out

\* a JUMP node with three successors, past the realloc at two
C12_Witness ==
  /\ ~undefined
  /\ \E n \in Handles : /\ TypeOf(n) = JUMP
                        /\ nodes[n].nb_out = 3
                        /\ Len(nodes[n].successor) = 4

\* the last step offered an instruction whose (address, size, opcode bytes)
\* some node already had
KnownIdentityStep ==
  /\ Inserted
  /\ ~last.fresh
  /\ \E n \in Handles : nodes[n].instruction = last.ins

\* C20: in a step whose instruction identity is already in the store, the
\* freshly allocated record is released exactly once, no record a node
\* holds is released, and the node cfg_insert returns has a live record.
C20_ReleasedOnce ==
  KnownIdentityStep
    => /\ released = 1
       /\ dangling = {}
       /\ last.ret # NULL => last.ret \notin dangling

\* a known instruction was executed again and its node handed back
C20_Witness ==
  /\ KnownIdentityStep
  /\ ~undefined
  /\ last.ret # NULL
  /\ nodes[last.ret].instruction = last.ins
  /\ last.linked

\* C19: the call stack never exceeds its 256 frames: no frame is written
\* past the end of stack, and a CALL step on a full stack fails with a
\* diagnostic, the frames as they were.
C19_StackBounded ==
  /\ depth <= STACK_SIZE
  /\ \A d \in DOMAIN stack : d < STACK_SIZE
  /\ (last.op = "cfg_insert" /\ TypeOf(last.cur) = CALL
      /\ last.depth0 >= STACK_SIZE)
       => (pc = "insert_failed" /\ depth = last.depth0)

\* C30: a RET linkage never leaves the call stack: whenever aux_cfg_insert
\* runs with a RET as cur_node, a frame is pending (depth >= 1) and the
\* frame it inspects, stack[depth - 1], is a CALL node at an index in
\* 0..255; with no frame pending no slot is read.
C30_RetFrameInBounds ==
  (last.op = "cfg_insert" /\ last.linked /\ TypeOf(last.cur) = RET)
    => /\ last.depth0 >= 1
       /\ last.depth0 - 1 < STACK_SIZE
       /\ last.top \in Handles
       /\ TypeOf(last.top) = CALL

\* the capacity, in handles, of the successor list of n once the doubling
\* policy has been applied to it, as before a write of successor[nb_out]
CapacityAtWrite(n) == Len(Grow(Mem, n).nodes[n].successor)

\* A JUMP node (handle 1) and a target (handle 2) alone in memory, and what
\* k calls of aux_cfg_insert (1, 2) in a row come to: the writes of
\* successor[0 .. k - 1], through the doublings at 2, 4, 8, ...
MaxOut == 33
JumpAndTarget ==
  cfg_new(cfg_new(LoopStart.m,
                  instr_new(InsJ.ip, InsJ.size, InsJ.buf, InsJ.mnemonic)).m,
          instr_new(InsN1.ip, InsN1.size, InsN1.buf, InsN1.mnemonic)).m

RECURSIVE Extended(_, _)
Extended(o, k) ==
  IF k = 0 \/ o.fault THEN o
  ELSE Extended(CHOOSE r \in aux_cfg_insert(o.m, 1, 2) : TRUE, k - 1)

JumpExtended == Extended(Out(JumpAndTarget, 2), MaxOut)

\* C36: every write of a successor handle lands inside the allocated list.
\* In every state and for every node: the handles written so far are within
\* the capacity, and the index of the next write (0 for a first successor,
\* 1 for the second of a BRANCH, nb_out after the doubling policy for a
\* JUMP, a caller extended by RET handling or a RET) is below the capacity.
C36_WritesInsideList ==
  /\ ~JumpExtended.fault
  /\ JumpExtended.m.nodes[1].nb_out = MaxOut
  /\ \A n \in Handles :
       /\ nodes[n].nb_out <= Len(nodes[n].successor)
       /\ 0 < Len(nodes[n].successor)
       /\ (TypeOf(n) = BRANCH /\ nodes[n].nb_out < 2)
            => 1 < Len(nodes[n].successor)
       /\ TypeOf(n) \in {JUMP, CALL, RET}
            => nodes[n].nb_out < CapacityAtWrite(n)

\* the last step wrote the third successor of a JUMP node, after the
\* doubling at two
C36_Witness ==
  /\ InsertedDefined
  /\ last.linked
  /\ TypeOf(last.cur) = JUMP
  /\ nodes[last.cur].nb_out = 3
  /\ nodes[last.cur].successor[3] = last.ret

\* C31: function_entry is never written past its 256 slots: nb_name stays
\* below 256 and every entry recorded is at an index in 1..255; a fresh
\* CALL target met when the table is full fails cleanly, nb_name as it was.
C31_FunctionEntryBounded ==
  /\ nb_name < FUNCTION_ENTRY_SIZE
  /\ \A k \in DOMAIN function_entry : k \in 1..(FUNCTION_ENTRY_SIZE - 1)
  /\ ~undefined

\* how many times the teardown released a part of node n, and the places
\* of the hashtable that hold n
Releases(what, n) ==
  Cardinality({i \in DOMAIN torn : torn[i] = [what |-> what, of |-> n]})
Registered(n) ==
  {<<i, k>> \in (DOMAIN ht.buckets) \X (1..Len(nodes)) :
     k <= Len(ht.buckets[i]) /\ ht.buckets[i][k] = n}
TornDown == pc \in {"done", "insert_failed"}

\* C33: nothing is released before teardown: no node, and no instruction
\* record a node holds; every node made by cfg_new is in the hashtable
\* exactly once; and hashtable_delete releases each node, its successor
\* list and its instruction record exactly once, whatever edges point to
\* the node.
C33_EachNodeReleasedOnce ==
  /\ ~TornDown => torn = <<>>
  /\ dangling = {}
  /\ \A n \in Handles : Cardinality(Registered(n)) = 1
  /\ TornDown =>
       /\ \A n \in Handles :
            /\ Releases("node", n) = 1
            /\ Releases("successor", n) = 1
            /\ Releases("instruction", n) = 1
       /\ \A i \in DOMAIN torn :
            torn[i].what \in {"node", "successor", "instruction"}
              => torn[i].of \in Handles

\* the input ended and the CFG torn down held a node that is its own
\* successor and a node with two entries for one successor
C33_Witness ==
  /\ pc = "done"
  /\ ~undefined
  /\ Len(nodes) >= 3
  /\ \E n \in Handles : n \in Successors(n)
  /\ \E n \in Handles : \E i, j \in 1..nodes[n].nb_out :
       i # j /\ nodes[n].successor[i] = nodes[n].successor[j]

\* this step is a cfg_insert call whose target is a known node that is
\* already in the successor list of cur_node
KnownSuccessorStep ==
  /\ steps' = steps + 1
  /\ last'.op = "cfg_insert"
  /\ ~last'.fresh
  /\ \E i \in 1..nodes[last'.cur].nb_out :
       /\ nodes[last'.cur].successor[i] \in Handles
       /\ AddressOf(nodes[last'.cur].successor[i]) = last'.ins.address

\* C34: when cfg_insert finds that n is already a successor of cur_node it
\* returns n; no node's successor list, in_degree, out_degree or function
\* id changes and no function id is allocated; the call stack alone may
\* change, by the push of cur_node when it is a CALL.
C34_KnownEdgeChangesNothing ==
  [][KnownSuccessorStep
       => /\ last'.ret = hashtable_lookup(Mem, last'.ins)
          /\ cfg' = last'.ret
          /\ UNCHANGED <<nodes, nb_name, function_entry>>
          /\ IF TypeOf(last'.cur) = CALL
             THEN /\ depth' = depth + 1
                  /\ stack' = Put(stack, depth, last'.cur)
             ELSE UNCHANGED <<depth, stack>>]_vars

\* a CALL was executed again with the target it already had: a frame
\* pushed, the nodes and the function ids as they were
C34_Witness ==
  /\ InsertedDefined
  /\ ~last.fresh
  /\ ~last.linked
  /\ last.ret \in Successors(last.cur)
  /\ TypeOf(last.cur) = CALL
  /\ depth = last.depth0 + 1
  /\ nb_name = 1

\* this step is a cfg_insert call with a CALL as cur_node and a target that
\* was not in the hashtable
FreshCallTargetStep ==
  /\ steps' = steps + 1
  /\ last'.op = "cfg_insert"
  /\ TypeOf(last'.cur) = CALL
  /\ last'.fresh

\* C35: nb_name counts the cfg_insert calls in which cur_node was a CALL and
\* the target was freshly created: each such call adds one to nb_name and
\* records the new node in the next slot of function_entry, any other step
\* leaves both as they were, and function_entry[1 .. nb_name] are pairwise
\* distinct nodes.
C35_IdsForFreshCallTargets ==
  /\ [](\A i \in 1..nb_name :
          /\ i \in DOMAIN function_entry
          /\ i < FUNCTION_ENTRY_SIZE
          /\ function_entry[i] \in Handles
          /\ \A j \in 1..nb_name :
               i # j => function_entry[i] # function_entry[j])
  /\ [][IF FreshCallTargetStep
        THEN /\ nb_name' = nb_name + 1
             /\ function_entry' = Put(function_entry, nb_name', last'.ret)
             /\ last'.ret = Len(nodes) + 1
        ELSE UNCHANGED <<nb_name, function_entry>>]_vars

\* two ids allocated, then a CALL executed again with its known target: a
\* third frame pushed and no third id
C35_Witness ==
  /\ InsertedDefined
  /\ TypeOf(last.cur) = CALL
  /\ ~last.fresh
  /\ nb_name = 2
  /\ pushes = 3
  /\ function_entry[1] # function_entry[2]

(***************************************************************************)
(* Properties of the instruction store of traces.c.                        *)
(***************************************************************************)
Inserts == 1..Len(store_hist)
OkInserts == {i \in Inserts : store_hist[i].ret}
InsertedRecords == {store_hist[i].instr : i \in OkInserts}
HoldsHandle(index) == \E k \in DOMAIN store.buckets[index] :
                         store.buckets[index][k] # NoRec
\* successful insertions into a bucket an earlier one had already filled
CollidingInserts ==
  {i \in OkInserts :
     \E j \in OkInserts : j < i /\ store_hist[j].index = store_hist[i].index}

\* C3: hashtable_lookup returns true if and only if a record with the same
\* address, size and opcode bytes was successfully inserted.
C3_LookupIffInserted ==
  store_last.op = "lookup"
    => (store_last.ret <=> store_last.instr \in InsertedRecords)

\* C4: entries is the number of insertions that returned true,
\* filled_buckets the number of buckets holding a handle, collisions the
\* number of successful insertions into a bucket that already held one;
\* and no call makes a counter decrease.
C4_CountersMatchHistory ==
  /\ [](/\ traces_hashtable_entries(store) = Cardinality(OkInserts)
        /\ hashtable_filled_buckets(store)
             = Cardinality({index \in 0..(store.size - 1) : HoldsHandle(index)})
        /\ hashtable_filled_buckets(store)
             = Cardinality({store_hist[i].index : i \in OkInserts})
        /\ traces_hashtable_collisions(store) = Cardinality(CollidingInserts))
  /\ [][/\ traces_hashtable_entries(store')
            >= traces_hashtable_entries(store)
        /\ hashtable_filled_buckets(store') >= hashtable_filled_buckets(store)
        /\ traces_hashtable_collisions(store')
            >= traces_hashtable_collisions(store)]_vars

\* two buckets filled, one of them twice, and a record refused as present
C4_Witness ==
  /\ traces_hashtable_collisions(store) >= 1
  /\ hashtable_filled_buckets(store) >= 2
  /\ traces_hashtable_entries(store) = 3
  /\ \E i \in Inserts : ~store_hist[i].ret /\ store_hist[i].instr # NoRec

\* the handles a bucket holds, and those of the whole store
BucketHandles(t, index) ==
  {t.buckets[index][k] : k \in DOMAIN t.buckets[index]} \ {NoRec}
StoredRecords(t) ==
  UNION {BucketHandles(t, index) : index \in 0..(t.size - 1)}
\* this step is a hashtable_insert of a record instr_new built
InsertStep ==
  /\ calls' = calls + 1
  /\ store_last'.op = "insert"
  /\ store_last'.instr # NoRec

\* C13: hashtable_insert of a record whose (address, size, opcode bytes)
\* is already stored returns false and leaves the counters and every
\* bucket as they were.
C13_DuplicateInsertRefused ==
  [][(InsertStep /\ store_last'.instr \in StoredRecords(store))
       => (/\ ~store_last'.ret
           /\ store' = store
           /\ hashtable_filled_buckets(store')
                = hashtable_filled_buckets(store))]_vars

\* the second record of a chain was offered again and refused
C13_Witness ==
  /\ store_last.op = "insert"
  /\ ~store_last.ret
  /\ \E index \in 0..(store.size - 1) :
       /\ Len(store.buckets[index]) >= 3
       /\ store.buckets[index][2] = store_last.instr

\* C14: hashtable_insert of a record whose (address, size, opcode bytes)
\* differs from every stored record returns true, adds one to entries, and
\* adds one to collisions exactly when the bucket was not empty.
C14_NewRecordInserted ==
  [][(InsertStep /\ store_last'.instr \notin StoredRecords(store))
       => (/\ store_last'.ret
           /\ store'.entries = store.entries + 1
           /\ store'.collisions =
                store.collisions
                  + (IF store.buckets[StoreIndex(store, store_last'.instr)]
                          = <<>>
                     THEN 0 ELSE 1))]_vars

\* C15: no bucket holds two handles with the same (address, size, opcode
\* bytes), and every handle sits in the bucket hash_instr (record) mod S.
C15_BucketsWellFormed ==
  \A index \in 0..(store.size - 1) :
    LET b == store.buckets[index]
    IN  /\ \A i, j \in DOMAIN b :
             (i # j /\ b[i] # NoRec /\ b[j] # NoRec) => b[i] # b[j]
        /\ \A i \in DOMAIN b :
             b[i] # NoRec
               => U64Mod(StoreHashOf(b[i]), store.size) = index

\* a store of several buckets, one of them holding a chain of two handles
C15_Witness ==
  /\ store.size > 1
  /\ hashtable_filled_buckets(store) >= 2
  /\ \E index \in 0..(store.size - 1) : Len(store.buckets[index]) = 3

\* a call of the store with an invalid argument: hashtable_new (0), a call
\* on a NULL table, a call with a NULL record
InvalidStoreCall(c) ==
  \/ c.op \in {"new", "insert_null", "lookup_null"}
  \/ c.op \in {"insert", "lookup"} /\ c.instr = NoRec

\* C29: hashtable_new (0) returns NULL, hashtable_insert and hashtable_lookup
\* on a NULL table or with a NULL record return false; each sets errno to
\* EINVAL and leaves entries, collisions and every bucket as they were.
C29_InvalidStoreCallRefused ==
  [][InvalidStoreCall(store_last')
       => /\ ~store_last'.ret
          /\ errno' = EINVAL
          /\ store' = store]_vars

C29_Witness ==
  /\ store_last.op = "insert_null"
  /\ store_last.instr # NoRec
  /\ store_last.instr \notin StoredRecords(store)
  /\ store.entries >= 2
  /\ errno = EINVAL

\* the handles in the buckets 0..index of a store, each array walked up to
\* its closing NULL
RECURSIVE HandlesHeld(_, _)
HandlesHeld(t, index) ==
  IF index < 0 THEN 0
  ELSE Cardinality({k \in DOMAIN t.buckets[index] :
                      t.buckets[index][k] # NoRec})
         + HandlesHeld(t, index - 1)

\* C32: in every state of the store, entries is collisions plus the number
\* of filled buckets, and entries is the number of handles held in all the
\* buckets together.
C32_EntriesAreHandles ==
  /\ traces_hashtable_entries(store)
       = traces_hashtable_collisions(store) + hashtable_filled_buckets(store)
  /\ traces_hashtable_entries(store) = HandlesHeld(store, store.size - 1)

\* a store with a chained bucket beside another filled one, just inserted
\* into
C32_Witness ==
  /\ store_last.op = "insert"
  /\ store_last.ret
  /\ traces_hashtable_collisions(store) >= 1
  /\ hashtable_filled_buckets(store) >= 2
  /\ \E index \in 0..(store.size - 1) : Len(store.buckets[index]) >= 3

(***************************************************************************)
(* Properties of the traces of traces.c.                                   *)
(***************************************************************************)
Length(t) == Len(appended[t])
Got == trace_last.op = "get" /\ trace_last.arg >= 1

\* C16: after the appends i1..in, trace_get (tr, k) is ik for 1 <= k <= n
\* and NULL for k > n, the empty trace included, and trace_length (tr) is n.
C16_GetAndLength ==
  /\ Got => /\ ~trace_last.ub
            /\ trace_last.ret =
                 (IF trace_last.arg <= Length(trace_last.t)
                  THEN appended[trace_last.t][trace_last.arg]
                  ELSE NULL)
  /\ trace_last.op = "length" => trace_last.ret = Length(trace_last.t)

\* C17: trace_compare (t1, t2) is 0 if and only if the two traces hold the
\* same sequence of handles, empty traces included.
C17_CompareZeroIffEqual ==
  trace_last.op = "compare"
    => (trace_last.ret = 0
          <=> appended[trace_last.t] = appended[trace_last.arg])

\* the first position where two sequences differ, one past the shorter when
\* it is a prefix of the other
FirstDifference(s1, s2) ==
  CHOOSE k \in 1..(Len(s1) + Len(s2) + 1) :
    /\ \A i \in 1..(k - 1) : i <= Len(s1) /\ i <= Len(s2) /\ s1[i] = s2[i]
    /\ \/ k > Len(s1)
       \/ k > Len(s2)
       \/ s1[k] # s2[k]

\* C18: on two traces that hold different sequences, trace_compare returns
\* the 1-based position of the first difference.
C18_CompareFirstDifference ==
  (trace_last.op = "compare"
   /\ appended[trace_last.t] # appended[trace_last.arg])
    => trace_last.ret
         = FirstDifference(appended[trace_last.t], appended[trace_last.arg])

\* a trace of one handle compared with a longer one that starts with it
C18_Witness ==
  /\ trace_last.op = "compare"
  /\ trace_last.ret = 2
  /\ Length(trace_last.t) = 1
  /\ Length(trace_last.arg) > 1
  /\ appended[trace_last.arg][1] = appended[trace_last.t][1]
\* C23: the loop appends every executed instruction to the current trace:
\* at any time some trace holds as many handles as instructions were
\* executed in this invocation.
C23_TraceFollowsExecution ==
  pc = "loop" => \E t \in Traces : Length(t) = instr_count

\* a call of trace_append or trace_get with an invalid argument
InvalidTraceCall(c) ==
  \/ c.op = "append" /\ (c.t = NULL \/ c.arg = NULL)
  \/ c.op = "get" /\ (c.t = NULL \/ c.arg < 1)

C26_GetCountsFromZero ==
  (trace_last.op = "get" /\ trace_last.t # NULL /\ ~trace_last.ub)
    => LET n == Length(trace_last.t)
           k == trace_last.arg
       IN  /\ k < n => trace_last.ret = appended[trace_last.t][k + 1]
           /\ k = n => trace_last.ret = NULL

\* the tnode_t of a trace, from node on
RECURSIVE TraceNodes(_, _)
TraceNodes(h, node) ==
  IF node = NULL THEN {} ELSE {node} \cup TraceNodes(h, h[node].next)

\* C37: trace_delete frees the trace_t it is given and each of the n
\* tnode_t of the trace, n >= 0, and no instruction record.
C37_DeleteFreesTraceOnly ==
  /\ trace_freed.instrs = {}
  /\ \A t \in trace_freed.deleted :
       /\ t \in trace_freed.traces
       /\ TraceNodes(tnodes, tr[t].head) \subseteq trace_freed.nodes

(***************************************************************************)
(* Properties of the instruction constructors.                             *)
(***************************************************************************)
\* the caller has not written its buffer since the calls
Untouched == passed = <<>> \/ given.opcodes = passed

\* the ordered classification table on the size bytes op of an instruction
\* and its mnemonic (absent: named = FALSE); first match wins
TableKind(op, size, str_name, named) ==
  LET second(lo, hi) == Len(op) >= 2 /\ op[2] >= lo /\ op[2] <= hi
      says(word) == named /\ strstr(str_name, word)
  IN  IF (op[1] >= 112 /\ op[1] <= 127) \/ (op[1] = 15 /\ second(128, 143))
      THEN BRANCH
      ELSE IF op[1] \in {232, 154}
              \/ (op[1] = 255 /\ size \in {2, 3})
              \/ (op[1] = 65 /\ second(255, 255) /\ says(StrCall))
      THEN CALL
      ELSE IF op[1] \in 233..235
              \/ (op[1] = 255 /\ size \in {4, 5})
              \/ op[1] \in 224..227
              \/ (op[1] = 65 /\ second(255, 255) /\ says(StrJmp))
      THEN JUMP
      ELSE IF (op[1] \in {195, 203} /\ size = 1)
              \/ (op[1] \in {194, 202} /\ size = 3)
              \/ (op[1] = 243 /\ second(195, 195) /\ size = 2)
      THEN RET
      ELSE BASIC

\* C24: for every address, size in 1..15, bytes and optional mnemonic, the
\* kind instr_new of trace.c assigns is the one of the ordered table on the
\* first size bytes, the size and the mnemonic, and of nothing else.
C24_KindIsTable ==
  (built.called /\ ~built.ub /\ Untouched
   /\ given.size \in 1..15 /\ given.opcodes # <<>>)
    => built.instr.type =
         TableKind(SubSeq(given.opcodes, 1, given.size), given.size,
                   given.str_name, given.named)

\* C27: for every address, size in 1..15 and buffer of at least size bytes,
\* the accessors of the record instr_new (traces.c) returns give back the
\* address, the size and the first size bytes as they were at the call,
\* whatever the caller writes in its buffer afterwards.
C27_AccessorsGiveInputs ==
  (record.called /\ given.size \in 1..15 /\ passed # <<>>)
    => /\ record.instr # NoRec
       /\ instr_addr(record.instr) = given.addr
       /\ instr_size(record.instr) = given.size
       /\ instr_opcodes(record.instr) = SubSeq(passed, 1, given.size)

C27_Witness ==
  /\ record.called
  /\ given.size = 15
  /\ given.opcodes # passed
  /\ instr_opcodes(record.instr) = SubSeq(passed, 1, 15)

\* C28: instr_new of either file, called with size 0 or without opcodes,
\* returns NULL and sets errno to EINVAL, for every address.
C28_InvalidNewRefused ==
  (given.size = 0 \/ given.opcodes = <<>>)
    => /\ built.called
            => (built.instr = NoInstr /\ ~built.fault /\ errno = EINVAL)
       /\ record.called => (record.instr = NoRec /\ errno = EINVAL)

C28_Witness ==
  /\ built.called
  /\ record.called
  /\ given.size = 0
  /\ given.opcodes # <<>>
  /\ given.addr = 4096
  /\ errno = EINVAL

(***************************************************************************)
(* Properties of the loop and its primitives.                              *)
(***************************************************************************)
\* C21: a failure of the step primitive is fatal: once PTRACE_SINGLESTEP has
\* failed, the loop is eventually left (teardown and exit); it does not call
\* the primitive again and again for ever.
C21_StepFailureIsFatal == ("singlestep" \in failed) ~> (at = "done")

\* this step is a pass of the loop body in which a read failed
FailedReadStep ==
  /\ at = "wait"
  /\ at' # "wait"
  /\ failed' \cap {"getregs", "peek"} # {}

\* C22: a pass of the loop in which the register read or the read of the 16
\* bytes failed ends the loop; no record is built in it and neither the
\* hashtable nor the CFG changes.
C22_FailedReadEndsLoop ==
  [][FailedReadStep
       => /\ at' = "done"
          /\ UNCHANGED <<nodes, ht, cfg, instr_count>>]_vars

\* this step is a pass of the loop body in which cs_disasm decoded nothing
UndecodedStep ==
  /\ at = "wait"
  /\ at' # "wait"
  /\ tracee # "exited"
  /\ cs_disasm(peeked') = {}

\* C38: a pass of the loop in which nothing is decoded is skipped: no record
\* is made, the hashtable, the CFG, the current node and the count of
\* executed instructions stay as they were, and the loop goes on to
\* PTRACE_SINGLESTEP.
C38_UndecodedStepSkipped ==
  [][UndecodedStep
       => /\ at' = "singlestep"
          /\ UNCHANGED <<nodes, ht, depth, nb_name, stack, function_entry,
                         cfg, cfg_entry, instr_count, pc, last, released>>
          /\ UNCHANGED <<storevars, instrvars>>]_vars

\* an instruction was executed, then a pass decoded nothing on a tracee that
\* is still there
C38_Witness ==
  /\ at = "singlestep"
  /\ tracee = "stopped"
  /\ instr_count >= 1
  /\ cfg # NULL
  /\ "peek" \in failed
  /\ cs_disasm(peeked) = {}

====
